---------------------------- MODULE Spec2Model ----------------------------
(***************************************************************************)
(* A model of the news-get crawler: the Missing-Date Ledger                *)
(* (src/src/news_crawler.py, not_exist.md), the per-date crawl             *)
(* (crawl_and_save_news_items / crawl_and_save_from_directory) and the     *)
(* retrieval state machine fetch_news_by_date.                             *)
(*                                                                         *)
(* A datetime is a record [day, hour]: day is the calendar day (an index), *)
(* hour the hour of the day; a date parsed from a string has hour 0.       *)
(* strftime('%Y-%m-%d') and strftime('%Y%m%d') keep only the day.          *)
(***************************************************************************)
EXTENDS Integers, Sequences, FiniteSets, TLC

VARIABLES
    now,        \* the local clock, a datetime
    files,      \* data/news/<YYYYMMDD>.md : [Days -> BOOLEAN], TRUE = the file exists
    ledger,     \* data/news/not_exist.md : [exists, lines]
    procs,      \* the crawler processes running record_missing_date side by
                \* side (SpecRace): where each stands, its date, what it read
    calls,      \* history: the ledger calls made so far (SpecLedger), each
                \* as the operation and the set of days it names
    batch,      \* the multi-date run of a script: its dates, those still to
                \* do, the outcomes so far, missing_dates (SpecBatch)
    content_lines, \* format_news_content: lines = content.split('\n')
    scan_i,     \* format_news_content: i, the index of the line to scan next
    formatted_lines, \* format_news_content
    in_main_content, \* format_news_content
    in_detail_content, \* format_news_content
    current_paragraph, \* format_news_content
    next_line_is_title, \* format_news_content
    prev_line,  \* format_news_content
    output,     \* the lines of the string format_news_content returned
    fpc,        \* where the format_news_content call stands
    articles,   \* history: the <article> blocks the content was extracted from
    prev_output, \* history: the output of the call before, when it had the same input
    doc,        \* history: the last write of a news file: the writer, its
                \* arguments, the path returned and the text written
    pc,         \* where the per-date crawl stands
    variant,    \* "v2" = crawl_and_save_news_items, "legacy" = crawl_and_save_from_directory
    date,       \* the date argument of the crawl
    stats,      \* {"success", "failed", "skipped"}
    items,      \* v2: the returned news_items
    direct_result, \* what fetch_news_by_date returned
    fmt,        \* fetch_news_by_date / fetch_news_links_from_directory: index into url_formats
    attempt,    \* fetch_news_by_date: the retry loop variable
    news_links, \* the links of the first directory listing
    unique_links, \* directory crawl: the links still to process
    results,    \* directory crawl: the items fetched so far
    seen_results, \* directory crawl: the (title, date) keys seen
    todo,       \* save loop: the items still to save
    log,        \* history: the requests of the running fetch_news_by_date call
    hist,       \* history: how the direct fetch of this crawl ended
    requested,  \* history: a network request was issued in this crawl
    writes,     \* history: the days whose news file this crawl wrote, in order
    files0,     \* history: files when the crawl was called
    ledger0,    \* history: ledger when the crawl was called
    run,        \* history: 1 = first run for the date, 2 = the run repeated right after
    first       \* history: in run 2, how run 1 ended

envVars == <<now, files, ledger>>
fetchVars == <<direct_result, fmt, attempt, log>>
dirVars == <<news_links, unique_links, results, seen_results, todo>>
histVars == <<hist, requested, writes, files0, ledger0, run, first>>
crawlVars == <<pc, variant, date, stats, items, fetchVars, dirVars, histVars>>
localVars == <<formatted_lines, in_main_content, in_detail_content, current_paragraph,
               next_line_is_title, prev_line>>
formatVars == <<content_lines, scan_i, localVars, output, fpc, articles, prev_output>>
callerVars == <<calls, procs, batch, formatVars, doc>>
vars == <<envVars, callerVars, crawlVars>>

----------------------------------------------------------------------------
(* Bounds *)

MaxDay == 2
MaxCalls == 3
\* the crawler processes started side by side
MaxProcs == 2
MaxBulk == 2
MaxLinks == 2
MaxLines == 4
MaxArticles == 2

(* Program constants *)

broadcast_hour == 19
retry_count_mut == 3 + 1
retry_count == 3
min_content_length == 50

Days == 1..MaxDay
Hours == {0, broadcast_hour - 1, broadcast_hour}
DateTimes == [day : Days, hour : Hours]

\* The month a day falls in (strftime('%Y年%m月')): day 1 closes a month,
\* the following days belong to the next months, two days each.
MonthOf(d) == d \div 2

Range(s) == {s[i] : i \in 1..Len(s)}

----------------------------------------------------------------------------
(* datetime helpers *)

\* datetime.__lt__
Before(a, b) == a.day < b.day \/ (a.day = b.day /\ a.hour < b.hour)

\* date.strftime('%Y-%m-%d') : the date string, which names the day only
strftime(dt) == dt.day

\* datetime.strptime(date_str, '%Y-%m-%d') : midnight of that day
strptime(s) == [day |-> s, hour |-> 0]

\* sorted(set(all_dates)) : the datetimes of S in ascending order
RECURSIVE sorted(_)
sorted(S) ==
    IF S = {} THEN <<>>
    ELSE LET m == CHOOSE x \in S : \A y \in S : x = y \/ Before(x, y)
         IN <<m>> \o sorted(S \ {m})

----------------------------------------------------------------------------
\* The ledger file not_exist.md.  Its text is a sequence of lines; the fixed
\* title and the update-time line carry no date token and are left out.
\* Kinds of line: "h3" (a month heading), "li" (a bullet "- YYYY-MM-DD ...")
\* and "total" (the closing count line).

NoLedger == [exists |-> FALSE, lines |-> <<>>]

\* no process is inside record_missing_date
Procs == 1..MaxProcs
NoProcs == [at |-> [p \in Procs |-> "idle"], d |-> [p \in Procs |-> 1],
            read |-> [p \in Procs |-> NoLedger], raced |-> FALSE]

\* re.findall(r'- (\d{4}-\d{2}-\d{2})', existing_content)
RECURSIVE findall(_)
findall(lines) ==
    IF lines = <<>> THEN <<>>
    ELSE (IF Head(lines).k = "li" THEN <<Head(lines).v>> ELSE <<>>)
         \o findall(Tail(lines))

\* [datetime.strptime(s, '%Y-%m-%d') for s in date_matches]
RECURSIVE parse_all(_)
parse_all(strs) ==
    IF strs = <<>> THEN <<>>
    ELSE <<strptime(Head(strs))>> \o parse_all(Tail(strs))

\* the "按月份分组" loop: one heading per month change, one bullet per date
RECURSIVE render_dates(_, _)
render_dates(all_dates, current_month) ==
    IF all_dates = <<>> THEN <<>>
    ELSE LET d == Head(all_dates)
             month_str == MonthOf(d.day)
         IN (IF current_month # month_str
                THEN <<[k |-> "h3", v |-> month_str]>> ELSE <<>>)
            \o <<[k |-> "li", v |-> strftime(d)]>>
            \o render_dates(Tail(all_dates), month_str)

\* the generated content: groups, then the total line
render(all_dates) ==
    render_dates(all_dates, -1) \o <<[k |-> "total", v |-> Len(all_dates)]>>

new_dates_of_mut(dates, existing_dates) == dates

\* the "过滤出新增的日期" loop of update_not_exist_file
RECURSIVE new_dates_of(_, _)
new_dates_of(dates, existing_dates) ==
    IF dates = <<>> THEN <<>>
    ELSE LET date_str == strftime(Head(dates))
         IN IF date_str \notin existing_dates
               THEN <<Head(dates)>>
                    \o new_dates_of(Tail(dates), existing_dates \cup {date_str})
               ELSE new_dates_of(Tail(dates), existing_dates)

\* update_not_exist_file gets as far as write_text: the list is not empty
\* ("if not dates: return") and names a date not yet in the file
\* ("if not new_dates: return")
update_rewrites(led, dates) ==
    /\ dates # <<>>
    /\ new_dates_of(dates, Range(IF led.exists THEN findall(led.lines) ELSE <<>>)) # <<>>

update_not_exist_file_mut(led, dates) ==
    IF dates = <<>> THEN led
    ELSE LET date_matches == IF led.exists THEN findall(led.lines) ELSE <<>>
             new_dates == new_dates_of(dates, Range(date_matches))
         IN IF new_dates = <<>> THEN led
            ELSE [exists |-> TRUE, lines |-> render(sorted(Range(new_dates)))]

\* update_not_exist_file(dates): the ledger file afterwards
update_not_exist_file(led, dates) ==
    IF dates = <<>> THEN led
    ELSE LET date_matches == IF led.exists THEN findall(led.lines) ELSE <<>>
             new_dates == new_dates_of(dates, Range(date_matches))
         IN IF new_dates = <<>> THEN led
            ELSE LET all_dates == parse_all(date_matches) \o new_dates
                 IN [exists |-> TRUE, lines |-> render(sorted(Range(all_dates)))]

record_missing_date_mut(led, d) == led

\* record_missing_date(date)
record_missing_date(led, d) == update_not_exist_file(led, <<d>>)

\* "移除指定日期": the dates of the file without the date given
without_date(led, d) ==
    SelectSeq(parse_all(findall(led.lines)), LAMBDA x : strftime(x) # strftime(d))

\* remove_date_from_not_exist gets as far as write_text: the file exists
\* and the filter dropped a date ("if len(all_dates) == len(date_matches): return")
remove_rewrites_mut(led, d) == led.exists
remove_rewrites(led, d) ==
    led.exists /\ Len(without_date(led, d)) # Len(findall(led.lines))

\* remove_date_from_not_exist(date): the ledger file afterwards
remove_date_from_not_exist(led, d) ==
    IF ~remove_rewrites(led, d) THEN led
    ELSE [exists |-> TRUE, lines |-> render(sorted(Range(without_date(led, d))))]

----------------------------------------------------------------------------
(* The per-date crawl: state shared by its steps *)

Variants == {"v2", "legacy"}

\* stats = {"success": 0, "failed": 0, "skipped": 0}
ZeroStats_mut == [success |-> 0, failed |-> 0, skipped |-> 1]
ZeroStats == [success |-> 0, failed |-> 0, skipped |-> 0]
NoResult == [ok |-> FALSE, src |-> "none"]
NoBatch == [state |-> "none", script |-> "none", dates |-> <<>>, queue |-> <<>>,
            outcomes |-> <<>>, missing_dates |-> <<>>]
NoHist == [primary |-> "none", legacy |-> "none", listing |-> "none", dup |-> FALSE,
           answers |-> "none", dir |-> <<>>, returned |-> <<>>, outcomes |-> {}]

\* url_formats = [(True, ...), (False, ...)] : use_zero_padding per format
url_formats_mut == <<FALSE, TRUE>>
url_formats == <<TRUE, FALSE>>

\* dt.now().replace(hour=0, minute=0, second=0, microsecond=0)
today == [now EXCEPT !.hour = 0]

\* "if date > today" : the future-date guard
IsFutureDate_mut(d) == d.day > today.day
IsFutureDate(d) == Before(today, d)

\* "if date == today" and "now.hour < broadcast_hour"
NotYetBroadcast(d) == d = today /\ now.hour < broadcast_hour

\* check_news_file_exists(date): the path is <strftime('%Y%m%d')>.md
check_news_file_exists_mut(d) == files[d.day] /\ d.hour = 0
check_news_file_exists(d) == files[d.day]

\* the dates the callers pass: parsed dates (midnight) and datetime.now()
\* minus whole days (the current time of day)
CallDates == {dt \in DateTimes : dt.hour = 0 \/ dt.hour = now.hour}

CrawlLocalsInit ==
    /\ stats = ZeroStats
    /\ items = <<>>
    /\ direct_result = NoResult
    /\ fmt = 1
    /\ attempt = 0
    /\ news_links = <<>>
    /\ unique_links = <<>>
    /\ results = <<>>
    /\ seen_results = {}
    /\ todo = <<>>
    /\ log = <<>>
    /\ hist = NoHist
    /\ requested = FALSE
    /\ writes = <<>>

ResetLocals ==
    /\ stats' = ZeroStats
    /\ items' = <<>>
    /\ direct_result' = NoResult
    /\ fmt' = 1
    /\ attempt' = 0
    /\ news_links' = <<>>
    /\ unique_links' = <<>>
    /\ results' = <<>>
    /\ seen_results' = {}
    /\ todo' = <<>>
    /\ log' = <<>>
    /\ hist' = NoHist
    /\ requested' = FALSE
    /\ writes' = <<>>

----------------------------------------------------------------------------
(* format_news_content (src/src/news_crawler.py 74-280)                     *)
(*                                                                         *)
(* A text is [base, num]: base names a sample string, num > 0 puts the      *)
(* '## <num>. ' of extract_gov_content in front of it.  The formatter sees  *)
(* a text only through the tests below, so each sample stands for every     *)
(* string with the same answers.  The samples:                              *)
(*   ""          the empty string                                           *)
(*   "summary"   今日新闻联播主要内容：                                     *)
(*   "detail"    以下为详细的文字版全文：                                   *)
(*   "title8"    李强主持召开会议            (8 characters)                 *)
(*   "bracket8"  【新闻联播快讯】            (8 characters)                 *)
(*   "dated8"    11月12日要闻                (8 characters)                 *)
(*   "numbered8" 1、国内联播快讯             (8 characters)                 *)
(*   "org"       国务院召开常务会议研究部署工作。                           *)
(*   "short"     会议强调了这一点。                                         *)
(*   "rule"      ---                                                        *)
(* A raw line is [pad, text]: pad = TRUE when white space surrounds it.     *)
(* An output line is [pre, parts]: the prefix and the texts joined by ' '.  *)
(***************************************************************************)

Bases == {"", "summary", "detail", "title8", "bracket8", "dated8", "numbered8",
          "org", "short"}
Blank == [base |-> "", num |-> 0]
EmptyLine == [pre |-> "", parts |-> <<>>]

\* len(line)
length(t) ==
    (IF t.num > 0 THEN 5 + (IF t.base = "" THEN 0 ELSE 1) ELSE 0)
    + CASE t.base = "" -> 0
        [] t.base = "summary" -> 11
        [] t.base = "detail" -> 12
        [] t.base \in {"title8", "bracket8", "dated8", "numbered8"} -> 8
        [] t.base = "org" -> 16
        [] t.base = "short" -> 9
        [] t.base = "rule" -> 3

\* line.strip(), and 'not line'
strip(raw) == raw.text
is_empty(t) == length(t) = 0

\* '今日新闻联播主要内容' in line or '新闻联播主要内容' in line
has_summary_marker(t) == t.base = "summary"
\* '以下为详细的文字版全文' in line or '以下为详细' in line
has_detail_marker(t) == t.base = "detail"
\* re.search(r'[。！？；]$', line)
ends_with_punctuation(t) == t.base \in {"org", "short"}
\* re.search(r'^[一二三四五六七八九十]+[、.]', line) : no sample starts so
chinese_enumerator(t) == FALSE
\* re.search(r'^\d+[、.]', line)
digit_enumerator(t) == t.num = 0 /\ t.base = "numbered8"
\* re.match(r'^【.*】', line)
bracket_title(t) == t.num = 0 /\ t.base = "bracket8"
\* re.match(r'^[（(].*[）)]', line) : no sample starts so
parenthesized(t) == FALSE
\* re.search(r'\d+月\d+日', line)
has_date(t) == t.base = "dated8"
\* re.search(r'当地时间|今天\(|昨日\(', line) : no sample holds one
has_time_word(t) == FALSE
\* re.search(r'\d+月\d+日|当地时间|今天\(|国家|国务院|...', next_line)
has_keyword(t) == t.base \in {"dated8", "org"}

\* lines 149-152: the title features tested after the detail marker
title_shape(t) ==
    /\ length(t) >= 8 /\ length(t) <= 60
    /\ ~ends_with_punctuation(t)
    /\ ~chinese_enumerator(t)
    /\ ~digit_enumerator(t)

\* lines 198-203: the title features of the 'elif' branch
news_title_shape(t) == title_shape(t) /\ ~has_date(t) /\ ~has_time_word(t)

\* line 211: while next_line_idx < len(lines)  (indexes count from 0)
in_lines_mut(next_line_idx, ls) == next_line_idx <= Len(ls)
in_lines(next_line_idx, ls) == next_line_idx < Len(ls)

\* lines 206-222: "yes"/"no" = is_title, "IndexError" = lines[next_line_idx]
\* outside the list
RECURSIVE is_title(_, _)
is_title(ls, next_line_idx) ==
    IF ~in_lines(next_line_idx, ls) THEN "no"
    ELSE IF next_line_idx + 1 > Len(ls) THEN "IndexError"
    ELSE LET next_line == strip(ls[next_line_idx + 1]) IN
         IF is_empty(next_line) THEN is_title(ls, next_line_idx + 1)
         ELSE IF has_keyword(next_line) \/ length(next_line) > 50 THEN "yes"
         ELSE "no"

\* ' '.join(current_paragraph), f"### {line}"
join(paragraph) == [pre |-> "", parts |-> paragraph]
emit(pre, t) == [pre |-> pre, parts |-> <<t>>]

\* if current_paragraph: formatted_lines.append(' '.join(...)); append('')
flush(fl, paragraph) ==
    IF paragraph # <<>> THEN fl \o <<join(paragraph), EmptyLine>> ELSE fl

\* the values of the locals at lines 87-92
FreshLocals ==
    [formatted_lines |-> <<>>, in_main_content |-> FALSE, in_detail_content |-> FALSE,
     current_paragraph |-> <<>>, next_line_is_title |-> FALSE, prev_line |-> Blank,
     raised |-> FALSE]

\* lines 243-252, "普通段落内容 - 每行作为一个独立段落": the buffer is
\* written out and the line appended as a paragraph of its own
as_paragraph_mut(s, line) ==
    [s EXCEPT !.current_paragraph = Append(@, line), !.prev_line = line]
as_paragraph(s, line) ==
    [s EXCEPT !.formatted_lines = flush(s.formatted_lines, s.current_paragraph)
                                     \o <<emit("", line), EmptyLine>>,
              !.current_paragraph = <<>>,
              !.prev_line = line]

\* "if line == prev_line and line.strip()" (the line is not empty here)
repeats_previous_mut(line, prev) == FALSE
repeats_previous(line, prev) == line = prev /\ ~is_empty(line)

\* "if in_main_content and not in_detail_content"
in_summary_section_mut(s) == s.in_main_content
in_summary_section(s) == s.in_main_content /\ ~s.in_detail_content

\* one round of the for loop (lines 94-262) on lines[idx], from the locals s
ScanLine(s, ls, idx) ==
    LET line == strip(ls[idx + 1])
        fl == flush(s.formatted_lines, s.current_paragraph)
        flushed == [s EXCEPT !.formatted_lines = fl, !.current_paragraph = <<>>]
        paragraph == as_paragraph(s, line)
        heading(pre) == [flushed EXCEPT !.formatted_lines = fl \o <<emit(pre, line), EmptyLine>>,
                                        !.prev_line = line]
    IN
    IF is_empty(line) THEN flushed
    ELSE IF has_summary_marker(line) THEN
        [flushed EXCEPT !.formatted_lines = fl \o <<emit("", line), EmptyLine>>,
                        !.in_main_content = TRUE, !.prev_line = line]
    ELSE IF has_detail_marker(line) THEN
        [flushed EXCEPT !.formatted_lines =
                            fl \o (IF s.in_main_content THEN <<EmptyLine>> ELSE <<>>)
                               \o <<emit("", line), EmptyLine>>,
                        !.in_main_content = FALSE, !.in_detail_content = TRUE,
                        !.next_line_is_title = TRUE, !.prev_line = line]
    ELSE IF in_summary_section(s) THEN
        [s EXCEPT !.formatted_lines = s.formatted_lines \o <<emit("* ", line)>>]
    ELSE IF s.in_detail_content THEN
        IF s.next_line_is_title /\ title_shape(line) THEN
            [heading("### ") EXCEPT !.next_line_is_title = FALSE]
        ELSE IF repeats_previous(line, s.prev_line) THEN s
        ELSE IF bracket_title(line) THEN heading("## ")
        ELSE IF digit_enumerator(line) \/ parenthesized(line) THEN heading("### ")
        ELSE IF news_title_shape(line) THEN
            LET t == is_title(ls, idx + 1) IN
            IF t = "IndexError" THEN [s EXCEPT !.raised = TRUE]
            ELSE IF t = "yes" THEN heading("### ")
            ELSE paragraph
        ELSE paragraph
    ELSE [flushed EXCEPT !.formatted_lines = fl \o <<emit("", line), EmptyLine>>]

\* 'not line.strip()' on a formatted line
is_blank_line(l) == l.pre = "" /\ \A k \in 1..Len(l.parts) : is_empty(l.parts[k])

\* lines 268-278: at most one blank line in a row
RECURSIVE clean(_, _)
clean(fl, prev_empty) ==
    IF fl = <<>> THEN <<>>
    ELSE IF is_blank_line(Head(fl))
         THEN (IF prev_empty THEN <<>> ELSE <<EmptyLine>>) \o clean(Tail(fl), TRUE)
         ELSE <<Head(fl)>> \o clean(Tail(fl), FALSE)

\* the lines of '\n'.join(result_lines): the empty string is one empty line
joined(result_lines) == IF result_lines = <<>> THEN <<EmptyLine>> ELSE result_lines

\* lines 268-278: result_lines after the cleaning loop
result_lines_mut(fl) == fl
result_lines(fl) == clean(fl, FALSE)

\* lines 264-280: the last paragraph, the cleaning, the join
Finish(s) ==
    joined(result_lines(IF s.current_paragraph # <<>>
                        THEN s.formatted_lines \o <<join(s.current_paragraph)>>
                        ELSE s.formatted_lines))

\* format_news_content(content) as a function of the lines of content
RECURSIVE ScanFrom(_, _, _)
ScanFrom(s, ls, idx) ==
    IF idx >= Len(ls) \/ s.raised THEN s ELSE ScanFrom(ScanLine(s, ls, idx), ls, idx + 1)

format_news_content(ls) == Finish(ScanFrom(FreshLocals, ls, 0))

\* extract_gov_content (lines 780-823) on the <article> blocks of the page:
\* a block is [h2, title, paragraphs], the texts after get_text(strip=True)
article_lines(idx, article) ==
    LET content_parts == SelectSeq(article.paragraphs, LAMBDA p : p # "")
        body == [k \in 1..(2 * Len(content_parts) - 1) |->
                    IF k % 2 = 1 THEN [pad |-> FALSE,
                                       text |-> [base |-> content_parts[(k + 1) \div 2], num |-> 0]]
                    ELSE [pad |-> FALSE, text |-> Blank]]
    IN  IF ~article.h2 \/ content_parts = <<>> THEN <<>>
        ELSE <<[pad |-> article.title = "", text |-> [base |-> article.title, num |-> idx]],
               [pad |-> FALSE, text |-> Blank]>> \o body

RuleLines == <<[pad |-> FALSE, text |-> Blank],
               [pad |-> FALSE, text |-> [base |-> "rule", num |-> 0]],
               [pad |-> FALSE, text |-> Blank]>>

\* '\n\n---\n\n'.join(all_news), split into lines; <<>> = no block kept
RECURSIVE all_news(_, _)
all_news(arts, idx) ==
    IF idx > Len(arts) THEN <<>>
    ELSE LET block == article_lines(idx, arts[idx])
             rest == all_news(arts, idx + 1)
         IN  IF block = <<>> THEN rest
             ELSE IF rest = <<>> THEN block
             ELSE block \o RuleLines \o rest

extract_gov_content(arts) == all_news(arts, 1)

\* len(text.strip()) of a text given by its lines: the characters of the
\* lines and the newlines between them
RECURSIVE char_count(_)
char_count(ls) ==
    IF ls = <<>> THEN 0
    ELSE length(strip(Head(ls))) + (IF Tail(ls) = <<>> THEN 0 ELSE 1 + char_count(Tail(ls)))

\* lines 843-855: the text of a candidate block is the content when it has
\* at least min_content_length characters; <<>> = None
candidate_text(text) == IF char_count(text) >= min_content_length THEN text ELSE <<>>

\* lines 780-855: the article sections when the page has any, else the
\* text of a candidate block
gov_content(arts, text) ==
    IF extract_gov_content(arts) # <<>> THEN extract_gov_content(arts)
    ELSE candidate_text(text)

\* no format_news_content call running
FormatIdle ==
    /\ content_lines = <<>>
    /\ scan_i = 0
    /\ formatted_lines = <<>>
    /\ in_main_content = FALSE
    /\ in_detail_content = FALSE
    /\ current_paragraph = <<>>
    /\ next_line_is_title = FALSE
    /\ prev_line = Blank
    /\ output = <<>>
    /\ fpc = "idle"
    /\ articles = <<>>
    /\ prev_output = <<>>

----------------------------------------------------------------------------
(* The two writers of news files: NewsItem.to_markdown + save_news_file     *)
(* (src/src/models/news_item.py 35-51, src/src/utils/file_manager.py 45-64) *)
(* and save_news_to_file (src/src/news_crawler.py 1089-1137).               *)
(*                                                                         *)
(* A document is the sequence of its lines (splitlines); a line is          *)
(* [lit, br, args]: the literal text of the f-string with {} for each       *)
(* interpolated value, br = TRUE when two spaces end the line, and the      *)
(* values.  A value is [kind, day, hour, text].                             *)
(* Chinese words of the literals are written in pinyin: riqi = 日期,       *)
(* laiyuan = 来源, paqushijian = 爬取时间, laiyuanlianjie = 来源链接,        *)
(* xinwenlianbo = 新闻联播, nian/yue/ri = 年/月/日.                         *)
(***************************************************************************)

NoDoc == [writer |-> "none", title |-> "", content |-> "", day |-> 0, url |-> "",
          path |-> 0, text |-> <<>>]

\* str values, and datetime values under a strftime format
str(x) == [kind |-> "str", day |-> 0, hour |-> 0, text |-> x]
formatted(dt, format) == [kind |-> format, day |-> dt.day, hour |-> dt.hour, text |-> ""]

DocLine(lit, args) == [lit |-> lit, br |-> FALSE, args |-> args]
BreakLine(lit, args) == [lit |-> lit, br |-> TRUE, args |-> args]

\* build_news_url(date), and urlparse(url).netloc
build_news_url(dt) == "http://mrxwlb.com/{}/"
netloc(url) ==
    CASE url = "https://cn.govopendata.com/xinwenlianbo/{}/" -> "cn.govopendata.com"
      [] url = "http://mrxwlb.com/{}/" -> "mrxwlb.com"
      [] OTHER -> ""

\* NewsItem.to_markdown(), crawled_at = the clock when the item was made
to_markdown(title, content, dt, url, crawled_at) ==
    << DocLine("# {}", <<str(title)>>),
       DocLine("", <<>>),
       DocLine("**riqi**: {} ({})", <<formatted(dt, "%Ynian%myue%dri"), formatted(dt, "%Y-%m-%d")>>),
       DocLine("**laiyuan**: [{}]({})", <<str(url), str(url)>>),
       DocLine("**paqushijian**: {}", <<formatted(crawled_at, "%Y-%m-%d %H:%M:%S")>>),
       DocLine("", <<>>),
       DocLine("---", <<>>),
       DocLine("", <<>>),
       DocLine("{}", <<str(content)>>),
       DocLine("", <<>>),
       DocLine("---", <<>>),
       DocLine("", <<>>),
       DocLine("*laiyuanlianjie: {}*", <<str(url)>>) >>

\* markdown_content of save_news_to_file (lines 1109-1125)
markdown_content(title, content, dt, source_url, clock) ==
    LET recorded_source == IF source_url # "" THEN source_url ELSE build_news_url(dt)
        source_domain == netloc(recorded_source)
    IN
    << DocLine("# {} xinwenlianbo", <<formatted(dt, "%Ynian%myue%dri")>>),
       DocLine("", <<>>),
       BreakLine("**riqi**: {}", <<formatted(dt, "%Ynian%myue%dri")>>),
       DocLine("**paqushijian**: {}", <<formatted(clock, "%Y-%m-%d %H:%M:%S")>>),
       DocLine("", <<>>),
       DocLine("---", <<>>),
       DocLine("", <<>>),
       DocLine("{}", <<str(content)>>),
       DocLine("", <<>>),
       DocLine("---", <<>>),
       DocLine("", <<>>),
       BreakLine("*laiyuan: {}*", <<str(source_domain)>>),
       DocLine("*URL: {}*", <<str(recorded_source)>>) >>

----------------------------------------------------------------------------
(* Initial state: no news file, no ledger file, no crawl running *)

Init ==
    /\ now \in [day : Days, hour : {broadcast_hour - 1, broadcast_hour}]
    /\ files = [d \in Days |-> FALSE]
    /\ ledger = NoLedger
    /\ procs = NoProcs
    /\ calls = <<>>
    /\ batch = NoBatch
    /\ FormatIdle
    /\ doc = NoDoc
    /\ pc = "idle"
    /\ variant = "v2"
    /\ date = [day |-> 1, hour |-> 0]
    /\ CrawlLocalsInit
    /\ files0 = files
    /\ ledger0 = ledger
    /\ run = 1
    /\ first = "none"

----------------------------------------------------------------------------
(* The clock and the callers *)

\* time passes between two crawls
Tick ==
    /\ pc = "idle"
    /\ \E t \in [day : Days, hour : {broadcast_hour - 1, broadcast_hour}] :
        /\ Before(now, t)
        /\ now' = t
    /\ UNCHANGED <<files, ledger, callerVars, crawlVars>>

\* a caller (daily_crawl.main, crawl_news.main) calls the crawl for a date;
\* the function starts with stats = {0, 0, 0} and no item
Call ==
    /\ pc = "idle"
    /\ \E v \in Variants, d \in CallDates :
        /\ variant' = v
        /\ date' = d
    /\ pc' = "guard"
    /\ ResetLocals
    /\ files0' = files
    /\ ledger0' = ledger
    /\ run' = 1
    /\ first' = "none"
    /\ UNCHANGED <<envVars, callerVars>>

\* what run 1 left for its own date
FirstOutcome ==
    IF \E i \in 1..Len(writes) : writes[i] = date.day THEN "saved" ELSE "not_saved"

\* the crawl returned and the caller runs it again for the same date
CallAgain ==
    /\ pc = "done"
    /\ run = 1
    /\ pc' = "guard"
    /\ ResetLocals
    /\ files0' = files
    /\ ledger0' = ledger
    /\ run' = 2
    /\ first' = FirstOutcome
    /\ UNCHANGED <<envVars, callerVars, variant, date>>

\* the crawl returned and the caller goes on
Return ==
    /\ pc = "done"
    /\ pc' = "idle"
    /\ ResetLocals
    /\ files0' = files
    /\ ledger0' = ledger
    /\ run' = 1
    /\ first' = "none"
    /\ variant' = "v2"
    /\ date' = [day |-> 1, hour |-> 0]
    /\ UNCHANGED <<envVars, callerVars>>

----------------------------------------------------------------------------
(* The guards of crawl_and_save_news_items / crawl_and_save_from_directory *)

GuardFutureDate ==
    /\ pc = "guard"
    /\ IsFutureDate(date)
    /\ stats' = [stats EXCEPT !.failed = 1]
    /\ pc' = "done"
    /\ UNCHANGED <<envVars, callerVars, variant, date, items, fetchVars, dirVars, histVars>>

GuardNotYetBroadcast ==
    /\ pc = "guard"
    /\ ~IsFutureDate(date)
    /\ NotYetBroadcast(date)
    /\ stats' = [stats EXCEPT !.skipped = 1]
    /\ pc' = "done"
    /\ UNCHANGED <<envVars, callerVars, variant, date, items, fetchVars, dirVars, histVars>>

GuardAlreadyExists ==
    /\ pc = "guard"
    /\ ~IsFutureDate(date)
    /\ ~NotYetBroadcast(date)
    /\ check_news_file_exists(date)
    /\ stats' = [stats EXCEPT !.skipped = 1]
    /\ pc' = "done"
    /\ UNCHANGED <<envVars, callerVars, variant, date, items, fetchVars, dirVars, histVars>>

\* all three guards passed: fetch_news_by_date(date) is called
GuardsPassed ==
    /\ pc = "guard"
    /\ ~IsFutureDate(date)
    /\ ~NotYetBroadcast(date)
    /\ ~check_news_file_exists(date)
    /\ pc' = "primary"
    /\ UNCHANGED <<envVars, callerVars, variant, date, stats, items, fetchVars, dirVars, histVars>>

----------------------------------------------------------------------------
(* fetch_news_by_date *)

\* what the primary source can answer: 200 with content, 200 without
\* (or with too short) content, other statuses, a requests exception
GovResponses == {"200ok", "200nocontent", "403", "404", "500", "reqexc"}

\* fetch_with_selenium: HTML with content, HTML without, None, an exception
SeleniumResponses == {"ok", "nocontent", "null", "exc"}

\* what a legacy article URL can answer
LegacyResponses == {"200ok", "200nodiv", "200short", "404", "500",
                    "timeout", "connerr", "reqexc", "exc"}

\* the kind of a legacy answer, as the code tells them apart
LegacyClass(r) ==
    CASE r = "200ok" -> "ok"
      [] r = "404" -> "404"
      [] r \in {"200nodiv", "200short"} -> "contentmissing"
      [] r \in {"500", "timeout", "connerr", "reqexc"} -> "transient"
      [] OTHER -> "exc"

\* date.month and date.day of the sample days: day 1 is the 31st of
\* October, the days after it are the 1st and 2nd of the following months
month(dt) == 10 + MonthOf(dt.day)
day(dt) == IF dt.day = 1 THEN 31 ELSE 1 + (dt.day % 2)

\* f"{n:02d}" and f"{n}": the number and whether a zero leads it
two_digits(n) == [n |-> n, zero |-> n < 10]
unpadded(n) == [n |-> n, zero |-> FALSE]

\* build_news_url(date, use_zero_padding) as the request URL: the path
\* segments that depend on the padding; the year and the title segment,
\* always two-digit, are the same in both
request_url(dt, use_zero_padding) ==
    IF use_zero_padding
       THEN [host |-> "mrxwlb.com", month |-> two_digits(month(dt)), day |-> two_digits(day(dt))]
       ELSE [host |-> "mrxwlb.com", month |-> unpadded(month(dt)), day |-> unpadded(day(dt))]

\* build_govopendata_url(date): strftime('%Y%m%d')
build_govopendata_url(dt) ==
    [host |-> "cn.govopendata.com", month |-> two_digits(month(dt)),
     day |-> two_digits(day(dt))]

\* line 884: if resp.status_code == 403
needs_rendering_mut(r) == r \in {"403", "500"}
needs_rendering(r) == r = "403"

\* requests.get(gov_url): the primary source
TryPrimarySource ==
    /\ pc = "primary"
    /\ \E r \in GovResponses :
        /\ log' = Append(log, [src |-> "gov", pad |-> TRUE, res |-> r])
        /\ IF r = "200ok"
              THEN /\ direct_result' = [ok |-> TRUE, src |-> "gov"]
                   /\ pc' = "fetched"
              ELSE /\ direct_result' = direct_result
                   /\ pc' = IF needs_rendering(r) THEN "selenium" ELSE "legacy"
    /\ requested' = TRUE
    /\ fmt' = 1
    /\ attempt' = 0
    /\ UNCHANGED <<envVars, callerVars, variant, date, stats, items, dirVars,
                   hist, writes, files0, ledger0, run, first>>

\* fetch_with_selenium(gov_url) after a 403
RenderingFallback ==
    /\ pc = "selenium"
    /\ \E r \in SeleniumResponses :
        /\ log' = Append(log, [src |-> "selenium", pad |-> TRUE, res |-> r])
        /\ IF r = "ok"
              THEN /\ direct_result' = [ok |-> TRUE, src |-> "gov"]
                   /\ pc' = "fetched"
              ELSE /\ direct_result' = direct_result
                   /\ pc' = "legacy"
    /\ UNCHANGED <<envVars, callerVars, variant, date, stats, items, fmt, attempt,
                   dirVars, hist, requested, writes, files0, ledger0, run, first>>

use_zero_padding == url_formats[fmt]

\* lines 940-946: the answers that are tried again while attempts are left;
\* a 404 has left the loop before (lines 927-937)
retries_mut(c) == c \in {"transient", "404"}
retries(c) == c = "transient"

\* one requests.get(url) of the retry loop and what the loop does with it
TryLegacySource ==
    /\ pc = "legacy"
    /\ \E r \in LegacyResponses :
        LET c == LegacyClass(r)
            lastAttempt == ~(attempt < retry_count - 1)
            \* "break": on to the next format, or out of the loop to the
            \* final "return None"
            Break == /\ IF fmt < Len(url_formats)
                           THEN /\ fmt' = fmt + 1
                                /\ attempt' = 0
                                /\ pc' = "legacy"
                           ELSE /\ pc' = "fetched"
                                /\ fmt' = 1
                                /\ attempt' = 0
                     /\ direct_result' = NoResult
            ReturnNone == /\ pc' = "fetched"
                          /\ direct_result' = NoResult
                          /\ fmt' = 1
                          /\ attempt' = 0
            \* "if use_zero_padding: break / else: return None"
            giveUp == IF use_zero_padding THEN Break ELSE ReturnNone
        IN
        /\ log' = Append(log, [src |-> "legacy", pad |-> use_zero_padding, res |-> c])
        /\ CASE c = "ok" ->
                  /\ direct_result' = [ok |-> TRUE,
                         src |-> IF use_zero_padding THEN "padded" ELSE "plain"]
                  /\ pc' = "fetched"
                  /\ fmt' = 1
                  /\ attempt' = 0
                  /\ UNCHANGED ledger
             [] c = "404" /\ ~retries(c) ->
                  IF use_zero_padding
                     THEN /\ Break
                          /\ UNCHANGED ledger
                     ELSE /\ ledger' = record_missing_date(ledger, date)
                          /\ ReturnNone
             [] retries(c) ->
                  IF ~lastAttempt
                     THEN /\ attempt' = attempt + 1
                          /\ UNCHANGED <<pc, fmt, direct_result, ledger>>
                     ELSE /\ giveUp
                          /\ UNCHANGED ledger
             [] OTHER ->
                  /\ giveUp
                  /\ UNCHANGED ledger
    /\ UNCHANGED <<now, files, callerVars, variant, date, stats, items, dirVars,
                   hist, requested, writes, files0, ledger0, run, first>>

----------------------------------------------------------------------------
(* After fetch_news_by_date returned *)

\* what the sources answered so far: "notfound" once a 404 came, "missing"
\* when a 200 came without content (no block, or under 50 characters) and
\* no 404, "unknown" once article pages are requested, whose status the
\* model does not tell
Answers(l) ==
    IF \E i \in 1..Len(l) : l[i].res = "404" THEN "notfound"
    ELSE IF \E i \in 1..Len(l) : l[i].res \in {"200nocontent", "nocontent", "contentmissing"}
         THEN "missing"
    ELSE "none"

\* the same after the answer k of a directory URL: a 404 and a listing
\* without links (an empty directory) count as not found
heard(answers, k) ==
    IF answers # "unknown" /\ k \in {"404", "nolinks"} THEN "notfound" ELSE answers

\* how the direct fetch ended, kept for the rest of the crawl
Summary(l) ==
    [primary |->
        IF \E i \in 1..Len(l) : l[i].src \in {"gov", "selenium"} /\ l[i].res \in {"200ok", "ok"}
           THEN "ok"
        ELSE IF /\ \E i \in 1..Len(l) : l[i].src = "gov" /\ l[i].res = "403"
                /\ \E i \in 1..Len(l) : l[i].src = "selenium" /\ l[i].res = "null"
           THEN "403_null"
        ELSE "other",
     legacy |->
        IF \E i \in 1..Len(l) : l[i].src = "legacy" /\ l[i].res = "ok"
           THEN "ok"
        ELSE IF /\ \E i \in 1..Len(l) : l[i].src = "legacy" /\ l[i].pad /\ l[i].res = "404"
                /\ \E i \in 1..Len(l) : l[i].src = "legacy" /\ ~l[i].pad /\ l[i].res = "404"
           THEN "404_404"
        ELSE IF \E i \in 1..Len(l) : l[i].src = "legacy"
           THEN "other"
        ELSE "none",
     listing |-> "none",
     dup |-> FALSE,
     answers |-> Answers(l),
     dir |-> <<>>,
     returned |-> <<>>,
     outcomes |-> {}]

\* save_news_file / save_news_to_file: the write succeeds (the file exists
\* afterwards) or raises (None is returned)
SaveOutcomes == {TRUE, FALSE}

\* "if direct_result": save the item, clear the date from the ledger
DirectSave ==
    /\ pc = "fetched"
    /\ direct_result.ok
    /\ \E saved \in SaveOutcomes :
        IF saved
           THEN /\ files' = [files EXCEPT ![date.day] = TRUE]
                /\ writes' = Append(writes, date.day)
                /\ stats' = [stats EXCEPT !.success = 1]
                /\ ledger' = remove_date_from_not_exist(ledger, date)
                /\ items' = IF variant = "v2"
                               THEN Append(items, [title |-> 0, date |-> date])
                               ELSE items
           ELSE /\ stats' = [stats EXCEPT !.failed = 1]
                /\ UNCHANGED <<files, writes, ledger, items>>
    /\ pc' = "done"
    /\ direct_result' = NoResult
    /\ hist' = Summary(log)
    /\ log' = <<>>
    /\ UNCHANGED <<now, callerVars, variant, date, fmt, attempt, dirVars,
                   requested, files0, ledger0, run, first>>

\* "govopendata 爬取失败，尝试目录页面方案": on to the directory listing
DirectFailed ==
    /\ pc = "fetched"
    /\ ~direct_result.ok
    /\ pc' = "links1"
    /\ fmt' = 1
    /\ attempt' = 0
    /\ hist' = Summary(log)
    /\ log' = <<>>
    /\ UNCHANGED <<envVars, callerVars, variant, date, stats, items, direct_result, dirVars,
                   requested, writes, files0, ledger0, run, first>>

----------------------------------------------------------------------------
(* The directory fallback *)

\* a link of a listing, named by the day of its /YYYY/M/D/ path segment
Links == [day : Days]

\* link.rstrip('/').split('?')[0]
normalized(link) == link

\* list(set(news_links)): up to MaxLinks distinct links, in any order
Listings == UNION {{l \in [1..n -> Links] : \A i, j \in 1..n : i # j => l[i] # l[j]} :
                   n \in 1..MaxLinks}

\* what a directory URL can answer: 200 with links, 200 without links, 404,
\* 403, another status, a requests exception, a parse exception
DirResponses == {[k |-> "links", links |-> l] : l \in Listings}
                \cup {[k |-> x, links |-> <<>>] :
                        x \in {"nolinks", "404", "403", "other", "reqexc", "exc"}}

\* the "去重URL" loop: the first link of each normalized URL
RECURSIVE dedup_links(_, _)
dedup_links(links, seen_urls) ==
    IF links = <<>> THEN <<>>
    ELSE IF normalized(Head(links)) \notin seen_urls
         THEN <<Head(links)>>
              \o dedup_links(Tail(links), seen_urls \cup {normalized(Head(links))})
         ELSE dedup_links(Tail(links), seen_urls)

\* the title of an article page: the day of its 年月日 date, 0 when it has none
Titles == 0..MaxDay

\* fetch_news_by_url(link, date=None): None, or the title and, through
\* it, the date (extract_date_from_title, else the date of the URL path)
ArticleResponses == {[ok |-> FALSE, title |-> 0]} \cup {[ok |-> TRUE, title |-> t] : t \in Titles}
final_date_mut(link, title) == strptime(link.day)
final_date(link, title) == strptime(IF title # 0 THEN title ELSE link.day)

\* the sample count of "if not news_items": links whose path date has a file
skipped_count(links) ==
    Cardinality({i \in 1..Len(links) : i <= 10 /\ check_news_file_exists(strptime(links[i].day))})

\* the stats when the directory crawl returned no item
NoItemsStats(links) ==
    IF skipped_count(links) > 0
       THEN [stats EXCEPT !.skipped = Len(links)]
       ELSE [stats EXCEPT !.failed = 1]

\* the branches of one round of the url_formats loop: a list with links is
\* returned; without links (404, 403, another status, no link found, an
\* exception) the non-padded round returns [] and the padded one continues
listing_returns_mut(k, f) == ~url_formats[f] \/ f = Len(url_formats)
listing_returns(k, f) == k = "links" \/ ~url_formats[f] \/ f = Len(url_formats)

\* history: the directory request of this step (which call of the crawl,
\* which padding, whether links were found), and which list a returning call
\* hands back: the links of the padded or of the non-padded listing
\* ("return news_links"), or the empty list ("return []")
asked(h, r) ==
    [h EXCEPT !.dir = Append(@, [call |-> IF pc = "links1" THEN 1 ELSE 2,
                                 pad |-> url_formats[fmt],
                                 found |-> r.links # <<>>])]
handed(h, r) ==
    [asked(h, r) EXCEPT !.returned =
        Append(@, IF r.links = <<>> THEN "empty"
                  ELSE IF url_formats[fmt] THEN "padded" ELSE "nonpadded")]

\* one requests.get(directory_url) of fetch_news_links_from_directory and
\* what its caller does with the list returned
FetchLinks ==
    /\ pc \in {"links1", "links2"}
    /\ \E r \in DirResponses :
        LET returns == listing_returns(r.k, fmt)
            links == r.links
        IN
        IF ~returns
           THEN \* "continue": the next format
                /\ fmt' = fmt + 1
                /\ hist' = [asked(hist, r) EXCEPT !.answers = heard(hist.answers, r.k)]
                /\ UNCHANGED <<pc, stats, ledger, news_links, unique_links>>
           ELSE /\ fmt' = 1
                /\ IF pc = "links1"
                      THEN \* crawl_and_save: "if not news_links"
                           IF links = <<>>
                              THEN /\ ledger' = record_missing_date(ledger, date)
                                   /\ stats' = [stats EXCEPT !.failed = 1]
                                   /\ pc' = "done"
                                   /\ hist' = [handed(hist, r) EXCEPT
                                                   !.listing = "nolinks",
                                                   !.answers = heard(hist.answers, r.k)]
                                   /\ UNCHANGED <<news_links, unique_links>>
                              ELSE /\ news_links' = links
                                   /\ pc' = "links2"
                                   /\ hist' = [handed(hist, r) EXCEPT
                                                   !.listing = "links",
                                                   !.answers = "unknown"]
                                   /\ UNCHANGED <<stats, ledger, unique_links>>
                      ELSE \* the directory crawl: "if not news_links: return []"
                           IF links = <<>>
                              THEN /\ stats' = NoItemsStats(news_links)
                                   /\ pc' = "done"
                                   /\ news_links' = <<>>
                                   /\ hist' = handed(hist, r)
                                   /\ UNCHANGED <<ledger, unique_links>>
                              ELSE /\ unique_links' = dedup_links(links, {})
                                   /\ pc' = "dirloop"
                                   /\ hist' = handed(hist, r)
                                   /\ UNCHANGED <<stats, ledger, news_links>>
    /\ requested' = TRUE
    /\ UNCHANGED <<now, files, callerVars, variant, date, items, direct_result, attempt, log,
                   results, seen_results, todo, writes, files0, ledger0, run, first>>

\* the pre-check of a link: v2 looks at the date of the URL path, the legacy
\* crawl also at the directory date when the two differ
PreCheckSkips(link) ==
    IF variant = "v2"
       THEN check_news_file_exists(strptime(link.day))
       ELSE /\ check_news_file_exists(strptime(link.day))
            /\ link.day # date.day => check_news_file_exists(date)

\* result_key = (title, actual_date.strftime('%Y-%m-%d'))
result_key(title, actual_date) == <<title, strftime(actual_date)>>

\* a fetched article goes into results: its date has no file yet and its
\* key was not seen before
keeps_result_mut(r, actual_date) ==
    r.ok /\ ~check_news_file_exists(actual_date)
keeps_result(r, actual_date) ==
    /\ r.ok
    /\ ~check_news_file_exists(actual_date)
    /\ result_key(r.title, actual_date) \notin seen_results

\* one round of "for link in unique_links"
CrawlLink ==
    /\ pc = "dirloop"
    /\ unique_links # <<>>
    /\ LET link == Head(unique_links) IN
        /\ unique_links' = Tail(unique_links)
        /\ IF PreCheckSkips(link)
              THEN /\ hist' = [hist EXCEPT !.outcomes = @ \cup {"skipped"}]
                   /\ UNCHANGED <<results, seen_results, requested>>
              ELSE /\ requested' = TRUE
                   /\ \E r \in ArticleResponses :
                        LET actual_date == final_date(link, r.title)
                            key == result_key(r.title, actual_date)
                        IN
                        /\ IF keeps_result(r, actual_date)
                              THEN /\ seen_results' = seen_results \cup {key}
                                   /\ results' = Append(results,
                                         [title |-> r.title, date |-> actual_date])
                              ELSE UNCHANGED <<results, seen_results>>
                        \* history: an article came with a key seen before;
                        \* how the link ended
                        /\ hist' = [hist EXCEPT
                                        !.dup = @ \/ (r.ok /\ key \in seen_results),
                                        !.outcomes = @ \cup
                                            {IF ~r.ok THEN "failed"
                                             ELSE IF keeps_result(r, actual_date) THEN "kept"
                                             ELSE "dropped"}]
    /\ UNCHANGED <<envVars, callerVars, pc, variant, date, stats, items, fetchVars,
                   news_links, todo, writes, files0, ledger0, run, first>>

\* the directory crawl returned: "if not news_items", else the save loop
CrawlLinksDone ==
    /\ pc = "dirloop"
    /\ unique_links = <<>>
    /\ IF results = <<>>
          THEN /\ stats' = NoItemsStats(news_links)
               /\ pc' = "done"
               /\ UNCHANGED <<items, todo>>
          ELSE /\ items' = IF variant = "v2" THEN results ELSE items
               /\ todo' = results
               /\ pc' = "saveloop"
               /\ UNCHANGED stats
    /\ news_links' = <<>>
    /\ results' = <<>>
    /\ seen_results' = {}
    /\ UNCHANGED <<envVars, callerVars, variant, date, fetchVars, unique_links, histVars>>

\* one round of the save loop; the loop ends with the last item
SaveItem ==
    /\ pc = "saveloop"
    /\ todo # <<>>
    /\ LET item == Head(todo) IN
       \E saved \in SaveOutcomes :
        IF saved
           THEN /\ files' = [files EXCEPT ![item.date.day] = TRUE]
                /\ writes' = Append(writes, item.date.day)
                /\ stats' = [stats EXCEPT !.success = @ + 1]
                /\ ledger' = IF variant = "v2"
                                THEN remove_date_from_not_exist(ledger, item.date)
                                ELSE ledger
           ELSE /\ stats' = [stats EXCEPT !.failed = @ + 1]
                /\ ledger' = IF variant = "v2"
                                THEN record_missing_date(ledger, item.date)
                                ELSE ledger
                /\ UNCHANGED <<files, writes>>
    /\ todo' = Tail(todo)
    /\ pc' = IF Tail(todo) = <<>> THEN "done" ELSE "saveloop"
    /\ UNCHANGED <<now, callerVars, variant, date, items, fetchVars, news_links, unique_links,
                   results, seen_results, hist, requested, files0, ledger0, run, first>>

----------------------------------------------------------------------------

Next ==
    \/ Tick \/ Call \/ Return
    \/ GuardFutureDate \/ GuardNotYetBroadcast \/ GuardAlreadyExists \/ GuardsPassed
    \/ TryPrimarySource \/ RenderingFallback \/ TryLegacySource
    \/ DirectSave \/ DirectFailed
    \/ FetchLinks \/ CrawlLink \/ CrawlLinksDone \/ SaveItem

Spec == Init /\ [][Next]_vars

\* the same, with callers that repeat a crawl for the same date
NextRerun == Next \/ CallAgain

SpecRerun == Init /\ [][NextRerun]_vars

----------------------------------------------------------------------------
(* SpecBatch: one multi-date run of daily_crawl.py or crawl_news.py *)

\* a <= b on datetimes
Leq(a, b) == a = b \/ Before(a, b)

\* [now - timedelta(days=i) for i in range(n)], reversed: oldest first.  The
\* calendar of the model starts at day 1; earlier days are left out.
recent_dates_mut(n) ==
    LET k == IF n < now.day THEN n ELSE now.day
    IN [i \in 1..k |-> [day |-> now.day + 1 - i, hour |-> now.hour]]
recent_dates(n) ==
    LET k == IF n < now.day THEN n ELSE now.day
    IN [i \in 1..k |-> [day |-> now.day - k + i, hour |-> now.hour]]

\* "while current_date <= end_date: ... current_date += timedelta(days=1)"
RECURSIVE range_dates(_, _)
range_dates(current_date, end_date) ==
    IF ~Leq(current_date, end_date) THEN <<>>
    ELSE <<current_date>>
         \o range_dates([current_date EXCEPT !.day = @ + 1], end_date)

\* the batches a script run can be: daily_crawl.py (the last 3 days),
\* crawl_news.py --range N, crawl_news.py --start S --end E
Batches ==
    {[script |-> "daily_crawl", dates |-> recent_dates(3)]}
    \cup {[script |-> "crawl_news", dates |-> recent_dates(n)] : n \in 1..MaxDay}
    \cup {[script |-> "crawl_news", dates |-> range_dates(s, e)] : s \in CallDates, e \in CallDates}

\* main() builds its list of dates
BatchStart ==
    /\ pc = "idle"
    /\ batch.state = "none"
    /\ \E b \in Batches :
        batch' = [state |-> "running", script |-> b.script, dates |-> b.dates,
                  queue |-> b.dates, outcomes |-> <<>>, missing_dates |-> <<>>]
    /\ UNCHANGED <<envVars, calls, procs, formatVars, doc, crawlVars>>

\* "for date in dates: stats = crawl_and_save...(date)": the call
BatchCall ==
    /\ pc = "idle"
    /\ batch.state = "running"
    /\ batch.queue # <<>>
    /\ variant' = IF batch.script = "daily_crawl" THEN "v2" ELSE "legacy"
    /\ date' = Head(batch.queue)
    /\ pc' = "guard"
    /\ ResetLocals
    /\ files0' = files
    /\ ledger0' = ledger
    /\ run' = 1
    /\ first' = "none"
    /\ UNCHANGED <<envVars, callerVars>>

\* the crawl returned its stats: the rest of the loop body
BatchReturn ==
    /\ pc = "done"
    /\ batch.state = "running"
    /\ batch' = [batch EXCEPT
                    !.queue = Tail(@),
                    !.outcomes = Append(@, [date |-> date, stats |-> stats]),
                    !.missing_dates =
                        IF batch.script = "crawl_news" /\ stats.failed > 0
                           THEN Append(@, date) ELSE @]
    /\ pc' = "idle"
    /\ ResetLocals
    /\ files0' = files
    /\ ledger0' = ledger
    /\ run' = 1
    /\ first' = "none"
    /\ variant' = "v2"
    /\ date' = [day |-> 1, hour |-> 0]
    /\ UNCHANGED <<envVars, calls, procs, formatVars, doc>>

\* after the loop: crawl_news.py adds its missing_dates to the ledger
BatchEnd ==
    /\ pc = "idle"
    /\ batch.state = "running"
    /\ batch.queue = <<>>
    /\ ledger' = IF batch.missing_dates # <<>>
                    THEN update_not_exist_file(ledger, batch.missing_dates)
                    ELSE ledger
    /\ batch' = [batch EXCEPT !.state = "finished"]
    /\ UNCHANGED <<now, files, calls, procs, formatVars, doc, crawlVars>>

CrawlSteps ==
    \/ GuardFutureDate \/ GuardNotYetBroadcast \/ GuardAlreadyExists \/ GuardsPassed
    \/ TryPrimarySource \/ RenderingFallback \/ TryLegacySource
    \/ DirectSave \/ DirectFailed
    \/ FetchLinks \/ CrawlLink \/ CrawlLinksDone \/ SaveItem

NextBatch == BatchStart \/ BatchCall \/ BatchReturn \/ BatchEnd \/ CrawlSteps

SpecBatch == Init /\ [][NextBatch]_vars

\* the script runs on: every step that can be taken is taken
SpecBatchFair == SpecBatch /\ WF_vars(NextBatch)

----------------------------------------------------------------------------
(* SpecFormat: format_news_content called on every content of up to        *)
(* MaxLines lines, on the content extract_gov_content makes of a page of    *)
(* up to MaxArticles <article> blocks, and again on the content it has     *)
(* just formatted                                                          *)

RawLines == {[pad |-> FALSE, text |-> [base |-> b, num |-> 0]] : b \in Bases}
                \cup {[pad |-> TRUE, text |-> Blank]}
Contents == UNION {[1..n -> RawLines] : n \in 1..MaxLines}
\* the contents of a call that follows another call in the same process
LaterContents == [1..1 -> RawLines]

Blocks == {[h2 |-> FALSE, title |-> "", paragraphs |-> <<"org">>]}
            \cup [h2 : {TRUE}, title : {"title8", "summary"},
                  paragraphs : {<<>>, <<"">>, <<"org">>, <<"detail">>, <<"org", "short">>}]
Pages == UNION {[1..n -> Blocks] : n \in 1..MaxArticles}

\* block.get_text(separator='\n', strip=True) of the first candidate block
\* of a page: no text, 16 characters, 53 characters
BodyTexts ==
    LET line(b) == [pad |-> FALSE, text |-> [base |-> b, num |-> 0]]
    IN {<<>>, <<line("org")>>, <<line("org"), line("short"), line("org"), line("short")>>}

\* the locals of the running call
Locals ==
    [formatted_lines |-> formatted_lines, in_main_content |-> in_main_content,
     in_detail_content |-> in_detail_content, current_paragraph |-> current_paragraph,
     next_line_is_title |-> next_line_is_title, prev_line |-> prev_line,
     raised |-> FALSE]

SetLocals(s) ==
    /\ formatted_lines' = s.formatted_lines
    /\ in_main_content' = s.in_main_content
    /\ in_detail_content' = s.in_detail_content
    /\ current_paragraph' = s.current_paragraph
    /\ next_line_is_title' = s.next_line_is_title
    /\ prev_line' = s.prev_line

\* lines 87-92: every call creates its locals anew, whatever the call
\* before left
entry_locals_mut(left) == left
entry_locals(left) == FreshLocals

\* lines 84-92: lines = content.split('\n') and the locals
Enter(ls) ==
    /\ content_lines' = ls
    /\ scan_i' = 0
    /\ SetLocals(entry_locals(Locals))
    /\ output' = <<>>
    /\ fpc' = "scan"

\* format_news_content(content)
FormatCall ==
    /\ fpc \in {"idle", "returned"}
    /\ \E ls \in (IF fpc = "idle" THEN Contents ELSE LaterContents) : Enter(ls)
    /\ articles' = <<>>
    /\ prev_output' = <<>>
    /\ UNCHANGED <<envVars, calls, procs, batch, doc, crawlVars>>

\* lines 872-875: content = extract_gov_content(soup); if content:
\* format_news_content(content)
FormatGov ==
    /\ fpc = "idle"
    /\ \E arts \in Pages, text \in BodyTexts :
        /\ gov_content(arts, text) # <<>>
        /\ Enter(gov_content(arts, text))
        /\ articles' = arts
    /\ prev_output' = <<>>
    /\ UNCHANGED <<envVars, calls, procs, batch, doc, crawlVars>>

\* the same content formatted a second time
FormatAgain ==
    /\ fpc = "returned"
    /\ prev_output = <<>>
    /\ Enter(content_lines)
    /\ prev_output' = output
    /\ UNCHANGED <<envVars, calls, procs, batch, doc, crawlVars, articles>>

\* lines 94-262: one round of the for loop
FormatLine ==
    /\ fpc = "scan"
    /\ scan_i < Len(content_lines)
    /\ LET s == ScanLine(Locals, content_lines, scan_i) IN
        /\ SetLocals(s)
        /\ fpc' = IF s.raised THEN "raised" ELSE "scan"
    /\ scan_i' = scan_i + 1
    /\ UNCHANGED <<envVars, calls, procs, batch, doc, crawlVars, content_lines, output, articles,
                   prev_output>>

\* lines 264-280
FormatReturn ==
    /\ fpc = "scan"
    /\ scan_i = Len(content_lines)
    /\ output' = Finish(Locals)
    /\ fpc' = "returned"
    /\ UNCHANGED <<envVars, calls, procs, batch, doc, crawlVars, content_lines, scan_i, localVars,
                   articles, prev_output>>

NextFormat == FormatCall \/ FormatGov \/ FormatAgain \/ FormatLine \/ FormatReturn

\* the formatter reads neither the clock nor the files
InitFormat == Init /\ now = [day |-> 1, hour |-> broadcast_hour - 1]

SpecFormat == InitFormat /\ [][NextFormat]_vars

\* the interpreter keeps running the call
SpecFormatFair == SpecFormat /\ WF_vars(FormatLine \/ FormatReturn)

----------------------------------------------------------------------------
(* SpecWrite: the two writers called with every title, content, date and   *)
(* source URL                                                              *)

DocTitles == {"title a", "title b"}
Bodies == {"content a", "content b"}
Urls == {"https://cn.govopendata.com/xinwenlianbo/{}/", "http://mrxwlb.com/{}/"}

\* news_crawler_v2.py 160-169 and 220-223: NewsItem(...), then
\* save_news_file(item.to_markdown(), item.date); None when the write fails
WriteItem ==
    \E title \in DocTitles, content \in Bodies, dt \in DateTimes, url \in Urls, ok \in BOOLEAN :
        /\ doc' = [writer |-> "save_news_file", title |-> title, content |-> content,
                   day |-> dt.day, url |-> url,
                   path |-> IF ok THEN strftime(dt) ELSE 0,
                   text |-> IF ok THEN to_markdown(title, content, dt, url, now) ELSE <<>>]
        /\ files' = IF ok THEN [files EXCEPT ![strftime(dt)] = TRUE] ELSE files
        /\ UNCHANGED <<now, ledger, calls, procs, batch, formatVars, crawlVars>>

\* news_crawler.py 573, 629, 1342 and crawl_news.py 124:
\* save_news_to_file(title, content, date, source_url=...)
WriteLegacy ==
    \E title \in DocTitles, content \in Bodies, dt \in DateTimes, url \in Urls \cup {""},
       ok \in BOOLEAN :
        /\ doc' = [writer |-> "save_news_to_file", title |-> title, content |-> content,
                   day |-> dt.day, url |-> url,
                   path |-> IF ok THEN strftime(dt) ELSE 0,
                   text |-> IF ok THEN markdown_content(title, content, dt, url, now) ELSE <<>>]
        /\ files' = IF ok THEN [files EXCEPT ![strftime(dt)] = TRUE] ELSE files
        /\ UNCHANGED <<now, ledger, calls, procs, batch, formatVars, crawlVars>>

NextWrite == WriteItem \/ WriteLegacy

SpecWrite == Init /\ [][NextWrite]_vars

----------------------------------------------------------------------------
(* SpecLedger: a single process calling the ledger operations in sequence  *)

LedgerDates == {dt \in DateTimes : dt.hour # broadcast_hour}
BulkLists == UNION {[1..n -> LedgerDates] : n \in 0..MaxBulk}

\* what the history keeps of a list of dates passed to the ledger: the
\* calendar days named, and whether the list came strictly ascending
DaysOf(dates) == {strftime(dates[i]) : i \in 1..Len(dates)}
Ascending(dates) == \A i \in 1..(Len(dates) - 1) : dates[i].day < dates[i + 1].day

\* record_missing_date(date)
LedgerRecord ==
    /\ Len(calls) < MaxCalls
    /\ \E d \in LedgerDates :
        /\ ledger' = record_missing_date(ledger, d)
        /\ calls' = Append(calls, [op |-> "add", days |-> {strftime(d)},
                                   unsorted |-> FALSE,
                                   wrote |-> update_rewrites(ledger, <<d>>)])
    /\ UNCHANGED <<now, files, procs, batch, formatVars, doc, crawlVars>>

\* update_not_exist_file(dates)
LedgerBulkAdd ==
    /\ Len(calls) < MaxCalls
    /\ \E dates \in BulkLists :
        /\ ledger' = update_not_exist_file(ledger, dates)
        /\ calls' = Append(calls, [op |-> "add", days |-> DaysOf(dates),
                                   unsorted |-> ~Ascending(dates),
                                   wrote |-> update_rewrites(ledger, dates)])
    /\ UNCHANGED <<now, files, procs, batch, formatVars, doc, crawlVars>>

\* remove_date_from_not_exist(date)
LedgerRemove ==
    /\ Len(calls) < MaxCalls
    /\ \E d \in LedgerDates :
        /\ ledger' = remove_date_from_not_exist(ledger, d)
        /\ calls' = Append(calls, [op |-> "remove", days |-> {strftime(d)},
                                   unsorted |-> FALSE,
                                   wrote |-> remove_rewrites(ledger, d)])
    /\ UNCHANGED <<now, files, procs, batch, formatVars, doc, crawlVars>>

LedgerNext == LedgerRecord \/ LedgerBulkAdd \/ LedgerRemove

InitLedger == Init /\ now = [day |-> 1, hour |-> broadcast_hour - 1]

SpecLedger == InitLedger /\ [][LedgerNext]_vars

----------------------------------------------------------------------------
(* SpecRace: crawler processes calling record_missing_date side by side;   *)
(* the ledger functions take no lock, so the steps of update_not_exist_file *)
(* in one process interleave with those of the others                       *)

\* the calls begun: those returned and those running
begun == Len(calls) + Cardinality({p \in Procs : procs.at[p] # "idle"})

\* record_missing_date(date) is called in process p; history: a call begins
\* while another one runs
RaceCall(p) ==
    /\ procs.at[p] = "idle"
    /\ begun < MaxCalls
    /\ \E d \in Days :
        procs' = [procs EXCEPT !.at[p] = "called", !.d[p] = d, !.read[p] = NoLedger,
                               !.raced = @ \/ \E q \in Procs : procs.at[q] # "idle"]
    /\ UNCHANGED <<envVars, calls, batch, formatVars, doc, crawlVars>>

\* lines 1264-1310: the content process p writes, made of the dates it read
\* and its own
content_of_mut(p) == update_not_exist_file(NoLedger, <<strptime(procs.d[p])>>)
content_of(p) == update_not_exist_file(procs.read[p], <<strptime(procs.d[p])>>)

\* what read_text() can return: the file as it is, or, while another
\* process is inside write_text, any prefix of what that process writes
Readable ==
    {ledger} \cup
    UNION {{[exists |-> TRUE, lines |-> SubSeq(w, 1, n)] : n \in 0..Len(w)} :
           w \in {content_of(q).lines : q \in {r \in Procs : procs.at[r] = "writing"}}}

\* lines 1245-1260: exists(), read_text(), the filter for new dates and
\* "if not new_dates: return"
RaceRead(p) ==
    /\ procs.at[p] = "called"
    /\ \E existing \in Readable :
        LET dates == <<strptime(procs.d[p])>> IN
        IF update_rewrites(existing, dates)
           THEN /\ procs' = [procs EXCEPT !.at[p] = "read", !.read[p] = existing]
                /\ UNCHANGED calls
           ELSE /\ procs' = [procs EXCEPT !.at[p] = "idle", !.read[p] = existing]
                /\ calls' = Append(calls, [op |-> "add", days |-> {procs.d[p]},
                                           unsorted |-> FALSE, wrote |-> FALSE])
    /\ UNCHANGED <<envVars, batch, formatVars, doc, crawlVars>>

\* write_text(content): open(..., 'w') empties the file
RaceOpen(p) ==
    /\ procs.at[p] = "read"
    /\ ledger' = [exists |-> TRUE, lines |-> <<>>]
    /\ procs' = [procs EXCEPT !.at[p] = "writing"]
    /\ UNCHANGED <<now, files, calls, batch, formatVars, doc, crawlVars>>

\* write_text(content): the content, made of what this process read, is in
\* the file
RaceWrite(p) ==
    /\ procs.at[p] = "writing"
    /\ ledger' = content_of(p)
    /\ procs' = [procs EXCEPT !.at[p] = "idle"]
    /\ calls' = Append(calls, [op |-> "add", days |-> {procs.d[p]},
                               unsorted |-> FALSE, wrote |-> TRUE])
    /\ UNCHANGED <<now, files, batch, formatVars, doc, crawlVars>>

NextRace == \E p \in Procs : RaceCall(p) \/ RaceRead(p) \/ RaceOpen(p) \/ RaceWrite(p)

SpecRace == InitLedger /\ [][NextRace]_vars

----------------------------------------------------------------------------
(* C1 *)

\* the set of days the calls leave, applied in order as set-add and set-remove
RECURSIVE ApplyCalls(_)
ApplyCalls(cs) ==
    IF cs = <<>> THEN {}
    ELSE LET c == cs[Len(cs)]
             before == ApplyCalls(SubSeq(cs, 1, Len(cs) - 1))
         IN IF c.op = "add" THEN before \cup c.days ELSE before \ c.days

ListedDays == findall(ledger.lines)

\* C1: after every sequence of record/bulk-add/remove calls the ledger lists
\* exactly the days the calls leave as a set, each once, ascending, and its
\* total line equals the number of listed days.
C1_LedgerConsistent ==
    /\ Range(ListedDays) = ApplyCalls(calls)
    /\ \A i \in 1..Len(ListedDays) : \A j \in 1..Len(ListedDays) :
           i < j => ListedDays[i] < ListedDays[j]
    /\ ledger.exists =>
           /\ ledger.lines # <<>>
           /\ ledger.lines[Len(ledger.lines)] = [k |-> "total", v |-> Len(ListedDays)]
           /\ \A i \in 1..(Len(ledger.lines) - 1) : ledger.lines[i].k # "total"

\* a ledger that went through an add of two days passed out of order and a
\* remove, and still lists a day
C1_Witness ==
    /\ Len(ListedDays) >= 1
    /\ \E i \in 1..Len(calls) : calls[i].op = "remove" /\ i > 1
    /\ \E i \in 1..Len(calls) : calls[i].op = "add" /\ calls[i].unsorted
                                /\ Cardinality(calls[i].days) = 2

----------------------------------------------------------------------------
(* C2 - C8: the per-date crawl *)

OnlySkipped == [success |-> 0, failed |-> 0, skipped |-> 1]
OnlyFailed == [success |-> 0, failed |-> 1, skipped |-> 0]

\* the crawl issued no request, wrote no file and left files and ledger alone
NoOp == ~requested /\ writes = <<>> /\ files = files0 /\ ledger = ledger0

NoDoubleEntry ==
    \A i \in 1..Len(ListedDays) : \A j \in 1..Len(ListedDays) :
        i # j => ListedDays[i] # ListedDays[j]

\* C2 as stated: the ledger never lists a date twice, and a run repeated for
\* the same date is a no-op skip.
C2_SecondRunIsSkip ==
    /\ NoDoubleEntry
    /\ (pc = "done" /\ run = 2) => (stats = OnlySkipped /\ NoOp)

\* C2: the ledger never lists a date twice, and a run repeated for the same
\* date right after a run that saved the file of that date is a no-op skip.
C2_SecondRunAfterSaveIsSkip ==
    /\ NoDoubleEntry
    /\ (pc = "done" /\ run = 2 /\ first = "saved") => (stats = OnlySkipped /\ NoOp)

C2_Witness == pc = "done" /\ run = 2 /\ first = "saved" /\ ledger.exists

\* C3: a crawl for a date after today's midnight ends with failed = 1 only,
\* without a request and without a file written.
C3_FutureDateFails ==
    (pc = "done" /\ Before(today, date)) => (stats = OnlyFailed /\ NoOp)

C3_Witness == pc = "done" /\ date.day > now.day /\ stats = OnlyFailed

\* C4: a crawl for a date on today's calendar day, called before the
\* broadcast hour, ends with skipped = 1 only, without a request and without
\* a file written.
C4_TodayBeforeBroadcastSkips ==
    (pc = "done" /\ date.day = now.day /\ now.hour < broadcast_hour)
        => (stats = OnlySkipped /\ NoOp)

\* C5: when the file of the date exists at the call and the date passes the
\* two date guards, the crawl ends with skipped = 1 only, without a request,
\* and leaves the files and the ledger as they were.
C5_ExistingFileSkips ==
    (pc = "done" /\ files0[date.day]
        /\ ~Before(today, date) /\ ~(date = today /\ now.hour < broadcast_hour))
        => (stats = OnlySkipped /\ NoOp)

C5_Witness ==
    /\ pc = "done" /\ files0[date.day] /\ ~Before(today, date)
    /\ ~(date = today /\ now.hour < broadcast_hour)
    /\ date.day \in Range(ListedDays)

\* C6 as stated: primary 403, rendering fallback None, both legacy formats
\* 404: the crawl ends with the date in the ledger, no file written and a
\* failure.
C6_TotalExhaustion ==
    (pc = "done" /\ hist.primary = "403_null" /\ hist.legacy = "404_404")
        => /\ date.day \in Range(ListedDays)
           /\ writes = <<>>
           /\ stats.failed >= 1 /\ stats.success = 0

\* C6: primary 403, rendering fallback None, both legacy formats 404 and a
\* directory listing without links: the crawl ends with the date in the
\* ledger, no file written and failed = 1 only.
C6_TotalExhaustionNoLinks ==
    (pc = "done" /\ hist.primary = "403_null" /\ hist.legacy = "404_404"
        /\ hist.listing = "nolinks")
        => /\ date.day \in Range(ListedDays)
           /\ writes = <<>> /\ files = files0
           /\ stats = OnlyFailed

C6_Witness ==
    /\ pc = "done" /\ hist.primary = "403_null" /\ hist.legacy = "404_404"
    /\ hist.listing = "nolinks" /\ date.day \in Range(ListedDays)

\* C7: a crawl that went through the primary source, the legacy source and
\* the directory fallback and saved nothing ends with its date in the ledger
\* and a failure.
C7_RecordMissing ==
    (pc = "done" /\ hist.listing # "none" /\ writes = <<>>)
        => (date.day \in Range(ListedDays) /\ stats.failed >= 1)

\* C8: a day whose news file the crawl saved is not in the ledger when the
\* crawl returns.
C8_ClearMissing ==
    pc = "done" => \A i \in 1..Len(writes) : writes[i] \notin Range(ListedDays)

----------------------------------------------------------------------------
(* C9, C10: fetch_news_by_date *)

IsSuccess(e) == e.res \in {"200ok", "ok"}

\* C9: a legacy request comes only after the primary request (and, after a
\* 403, the rendering fallback) ended without success; a request of the
\* non-padded format only after a failed request of the padded one; a
\* success is the last request of the fetch, and of the crawl.
C9_SourceOrdering ==
    /\ \A i \in 1..Len(log) : log[i].src = "legacy" =>
          /\ log[1].src = "gov" /\ ~IsSuccess(log[1])
          /\ log[1].res = "403" =>
                (i > 2 /\ log[2].src = "selenium" /\ ~IsSuccess(log[2]))
    /\ \A i \in 1..Len(log) : (log[i].src = "legacy" /\ ~log[i].pad) =>
          \E j \in 1..(i - 1) : log[j].src = "legacy" /\ log[j].pad /\ ~IsSuccess(log[j])
    /\ \A i \in 1..(Len(log) - 1) : ~IsSuccess(log[i])
    /\ (log # <<>> /\ IsSuccess(log[Len(log)])) => (pc = "fetched" /\ direct_result.ok)
    /\ (hist.primary = "ok" \/ hist.legacy = "ok") => hist.listing = "none"

C9_Witness ==
    /\ pc = "fetched" /\ Len(log) >= 4
    /\ log[1].res = "403"
    /\ log[Len(log)].src = "legacy" /\ ~log[Len(log)].pad /\ IsSuccess(log[Len(log)])

Requests(src, pad) ==
    Cardinality({i \in 1..Len(log) : log[i].src = src /\ log[i].pad = pad})

\* a step inside fetch_news_by_date issues one request and goes on or returns
FetchStepProgress ==
    pc \in {"primary", "selenium", "legacy"} =>
        (Len(log') = Len(log) + 1 /\ pc' \in {"selenium", "legacy", "fetched"})

\* C10: each legacy format is requested at most retry_count = 3 times, a
\* format is requested again only after a transient outcome, the call makes
\* at most 1 primary and 6 legacy requests, and every step of the call issues
\* one request or returns.
C10_BoundedRetries ==
    /\ [](/\ Requests("legacy", TRUE) <= 3
          /\ Requests("legacy", FALSE) <= 3
          /\ Requests("gov", TRUE) <= 1
          /\ \A i \in 1..(Len(log) - 1) :
                (log[i].src = "legacy" /\ log[i + 1].src = "legacy"
                    /\ log[i].pad = log[i + 1].pad) => log[i].res = "transient")
    /\ [][FetchStepProgress]_vars

C10_Witness ==
    pc = "fetched" /\ Requests("legacy", TRUE) = 3 /\ Requests("legacy", FALSE) = 3

----------------------------------------------------------------------------
\* C11 - C13: the directory fallback

NewFiles == {d \in Days : files[d] /\ ~files0[d]}

\* C11: the crawl writes no file that existed at the call, writes no file
\* twice, and reports as many successes as it created files.
C11_NoOverwrite ==
    /\ \A i \in 1..Len(writes) : ~files0[writes[i]]
    /\ \A i \in 1..Len(writes) : \A j \in 1..Len(writes) :
           i # j => writes[i] # writes[j]
    /\ pc = "done" => stats.success = Cardinality(NewFiles)

SameKey(a, b) == a.title = b.title /\ strftime(a.date) = strftime(b.date)

\* C12: the list the directory crawl builds never holds two items of the
\* same title and resolved date, nor an item whose resolved date has a file.
C12_DirectoryDedup ==
    /\ \A i \in 1..Len(results) : \A j \in 1..Len(results) :
           i # j => ~SameKey(results[i], results[j])
    /\ \A i \in 1..Len(results) : ~check_news_file_exists(results[i].date)
    /\ pc = "saveloop" =>
           \A i \in 1..Len(todo) : \A j \in 1..Len(todo) :
               i # j => ~SameKey(todo[i], todo[j])

\* two links whose articles came with the same title and date: one item
C12_Witness ==
    /\ pc = "dirloop" /\ unique_links = <<>>
    /\ hist.dup /\ Len(results) = 1

\* the date of an item is the date its title names, when it names one
ResolvedFromTitle(item) == item.title # 0 => item.date = strptime(item.title)

\* a round of the save loop touches the file of the item's date only; when
\* it wrote, that file exists and (crawl_and_save_news_items) that date is
\* out of the ledger; no other date enters or leaves the ledger
SaveItemFiling ==
    (pc = "saveloop" /\ todo # <<>>) =>
        LET E == Head(todo).date.day IN
        /\ \A d \in Days \ {E} : files'[d] = files[d]
        /\ \A d \in Days \ {E} :
               (d \in Range(findall(ledger'.lines))) = (d \in Range(findall(ledger.lines)))
        /\ writes' # writes =>
               /\ writes' = Append(writes, E)
               /\ files'[E]
               /\ variant = "v2" => E \notin Range(findall(ledger'.lines))

\* C13: an item of the directory fallback whose title names a date is filed
\* under that date, whatever the directory date and the URL path say, and
\* the ledger removal after the save is of that date.
C13_FiledUnderExtractedDate ==
    /\ [](/\ \A i \in 1..Len(results) : ResolvedFromTitle(results[i])
          /\ \A i \in 1..Len(todo) : ResolvedFromTitle(todo[i]))
    /\ [][SaveItemFiling]_vars

\* a crawl for D saved the file of another date E named by a title, took E
\* out of the ledger and wrote no file of D
C13_Witness ==
    /\ pc = "done" /\ variant = "v2" /\ hist.listing = "links"
    /\ \E i \in 1..Len(items) :
          LET E == items[i].title IN
          /\ E # 0 /\ E # date.day
          /\ \E j \in 1..Len(writes) : writes[j] = E
          /\ E \in Range(findall(ledger0.lines))
          /\ E \notin Range(ListedDays)
    /\ \A j \in 1..Len(writes) : writes[j] # date.day
    /\ ~files[date.day]

----------------------------------------------------------------------------
\* C14: the multi-date run

OutcomeDates == [i \in 1..Len(batch.outcomes) |-> batch.outcomes[i].date]

\* the dates of a run ascend; those with an outcome followed by those still
\* to do are the dates of the run, in order; a crawl in progress is of the
\* first date still to do; every outcome counts a success, a failure or a
\* skip; a finished run has an outcome for each of its dates
BatchInOrder ==
    /\ \A i \in 1..(Len(batch.dates) - 1) : Before(batch.dates[i], batch.dates[i + 1])
    /\ batch.dates = OutcomeDates \o batch.queue
    /\ (batch.state = "running" /\ pc # "idle") =>
           (batch.queue # <<>> /\ date = Head(batch.queue))
    /\ \A i \in 1..Len(batch.outcomes) : batch.outcomes[i].stats # ZeroStats
    /\ batch.state = "finished" =>
           (batch.queue = <<>> /\ Len(batch.outcomes) = Len(batch.dates))

----------------------------------------------------------------------------
(* C15 *)

----------------------------------------------------------------------------
(* C16 *)

AllBlank(ls) == \A k \in 1..Len(ls) : is_empty(strip(ls[k]))

NeverRaises ==
    /\ fpc # "raised"
    /\ scan_i <= Len(content_lines)
    /\ (fpc = "returned" /\ AllBlank(content_lines)) => output = <<EmptyLine>>

\* C16: format_news_content raises on no content and every call returns;
\* on a content of empty and white-space lines only it returns the empty
\* string
C16_Totality == []NeverRaises /\ ((fpc = "scan") ~> (fpc = "returned"))

\* a call on a white-space line followed by empty lines has returned the
\* empty string
C16_Witness ==
    /\ fpc = "returned"
    /\ Len(content_lines) = MaxLines
    /\ content_lines[1].pad
    /\ AllBlank(content_lines)
    /\ output = <<EmptyLine>>

----------------------------------------------------------------------------
(* C17 *)

\* the next non-blank line after index idx, Blank when there is none
RECURSIVE next_non_blank(_, _)
next_non_blank(ls, idx) ==
    IF idx >= Len(ls) THEN Blank
    ELSE IF is_empty(strip(ls[idx + 1])) THEN next_non_blank(ls, idx + 1)
    ELSE strip(ls[idx + 1])

\* the line about to be scanned is a detail-section line of exactly 8
\* characters without final punctuation and without enumerator prefix,
\* reaching the classification rules (d)/(e): no marker, not the line the
\* armed flag promotes, not a repetition of the line before, not bracketed
BoundaryLine(line) ==
    /\ fpc = "scan" /\ scan_i < Len(content_lines)
    /\ in_detail_content /\ ~next_line_is_title
    /\ line = strip(content_lines[scan_i + 1])
    /\ length(line) = 8
    /\ ~ends_with_punctuation(line)
    /\ ~chinese_enumerator(line) /\ ~digit_enumerator(line)
    /\ ~has_summary_marker(line) /\ ~has_detail_marker(line)
    /\ line # prev_line
    /\ ~bracket_title(line) /\ ~parenthesized(line)

BoundaryStep ==
    \A line \in {strip(l) : l \in RawLines} :
        BoundaryLine(line) =>
            LET next_line == next_non_blank(content_lines, scan_i + 1) IN
            /\ next_line.base = "org" =>
                    formatted_lines' = formatted_lines \o <<emit("### ", line), EmptyLine>>
            /\ (~is_empty(next_line) /\ length(next_line) < 50 /\ ~has_keyword(next_line)) =>
                    formatted_lines' = formatted_lines \o <<emit("", line), EmptyLine>>

\* C17: in the detail section a line of exactly 8 characters without final
\* punctuation and without enumerator prefix is emitted as a '###' heading
\* when the next non-blank line contains "国务院", and as a plain paragraph
\* when the next non-blank line is short and holds no keyword or date
C17_HeadingBoundary == [][BoundaryStep]_vars

----------------------------------------------------------------------------
(* C18 *)

\* every block of the page has a heading and paragraphs with text
WholeBlocks(arts) ==
    \A k \in 1..Len(arts) :
        /\ arts[k].h2
        /\ arts[k].paragraphs # <<>>
        /\ \A p \in 1..Len(arts[k].paragraphs) : arts[k].paragraphs[p] # ""

\* the texts of the sections '## k. <title>' numbered from k on, in page
\* order, with a '---' between two sections
RECURSIVE SectionTexts(_, _)
SectionTexts(arts, k) ==
    IF k > Len(arts) THEN <<>>
    ELSE <<[base |-> arts[k].title, num |-> k]>>
         \o [p \in 1..Len(arts[k].paragraphs) |-> [base |-> arts[k].paragraphs[p], num |-> 0]]
         \o (IF k < Len(arts) THEN <<[base |-> "rule", num |-> 0]>> ELSE <<>>)
         \o SectionTexts(arts, k + 1)

NonBlankLines(ls) == SelectSeq(ls, LAMBDA l : ~is_blank_line(l))

\* C18: the content of a primary page of N blocks, each with heading and
\* paragraph, comes out of the formatter as the N sections '## k. <title>'
\* numbered 1..N in page order with '---' between them, every line as it
\* went in
C18_PrimarySections ==
    (fpc = "returned" /\ articles # <<>> /\ WholeBlocks(articles)) =>
        NonBlankLines(output) =
            [k \in 1..Len(SectionTexts(articles, 1)) |-> emit("", SectionTexts(articles, 1)[k])]

----------------------------------------------------------------------------
(* C19 *)

\* the structure of a document: the literal text of its lines
Structure(text) == [k \in 1..Len(text) |-> text[k].lit]

\* the persisted Markdown format
PersistedLayout ==
    << "# {} xinwenlianbo", "", "**riqi**: {}", "**paqushijian**: {}", "", "---", "", "{}", "",
       "---", "", "*laiyuan: {}*", "*URL: {}*" >>

\* C19: every news file written has the persisted layout, and the two
\* writers give the same structure for the same title, content, date and
\* source URL
C19_SameLayout ==
    doc.path # 0 =>
        /\ Structure(doc.text) = PersistedLayout
        /\ \A dt \in DateTimes : strftime(dt) = doc.day =>
              /\ Structure(doc.text) = Structure(to_markdown(doc.title, doc.content, dt, doc.url, now))
              /\ Structure(doc.text) =
                    Structure(markdown_content(doc.title, doc.content, dt, doc.url, now))

----------------------------------------------------------------------------
(* C20 *)

\* C20: a crawl in which a source answered 200 without usable content and
\* no source answered 404 returns with the date out of the ledger, unless
\* the date was in it before
C20_ContentMissingNotRecorded ==
    (pc = "done" /\ hist.answers = "missing") =>
        (date.day \in Range(findall(ledger.lines)) =>
            date.day \in Range(findall(ledger0.lines)))

----------------------------------------------------------------------------
(* C21 *)

\* a step of the crawl in which the write of a fetched item failed: in the
\* save loop, or right after a direct fetch
SaveFailedStep ==
    /\ \/ pc = "saveloop" /\ todo # <<>>
       \/ pc = "fetched" /\ direct_result.ok
    /\ stats'.failed # stats.failed

PersistenceFailureStep ==
    SaveFailedStep =>
        LET D == IF pc = "saveloop" THEN Head(todo).date.day ELSE date.day IN
        /\ stats'.failed = stats.failed + 1
        /\ stats'.success = stats.success
        /\ pc = "saveloop" => /\ todo' = Tail(todo)
                              /\ pc' = IF todo' = <<>> THEN "done" ELSE "saveloop"
        /\ pc = "fetched" => pc' = "done"
        /\ D \in Range(findall(ledger'.lines)) => D \in Range(findall(ledger.lines))

\* C21: when the write of a fetched item fails, failed grows by exactly one,
\* the loop goes on with the remaining items, the crawl returns, and the
\* item's date does not enter the Missing-Date Ledger
C21_PersistenceFailure == [][PersistenceFailureStep]_vars

----------------------------------------------------------------------------
(* C22 *)

\* a step that writes the date of the crawl into the ledger is taken when
\* the primary source and both legacy variants have been tried (the direct
\* fetch has returned) and the directory listing is being or has been
\* requested
RecordingStep ==
    (date.day \notin Range(findall(ledger.lines)) /\ date.day \in Range(findall(ledger'.lines)))
        => pc \in {"links1", "saveloop"}

\* C22: during a crawl the date is written into the Missing-Date Ledger
\* only after the primary source, both legacy padding variants and the
\* directory fallback have all been attempted
C22_RecordAfterExhaustion == [][RecordingStep]_vars

----------------------------------------------------------------------------
(* C23 *)

Is404(e, pad) == e.src = "legacy" /\ e.pad = pad /\ e.res = "404"

\* C23: a 404 on the zero-padded legacy URL is the last request of that
\* variant and the non-padded variant comes next; a 404 on the non-padded
\* URL is the last request of the fetch, which returns without result
C23_Legacy404 ==
    \A k \in 1..Len(log) :
        /\ Is404(log[k], TRUE) =>
              IF k = Len(log)
                 THEN pc = "legacy" /\ ~use_zero_padding /\ attempt = 0
                 ELSE log[k + 1].src = "legacy" /\ ~log[k + 1].pad
        /\ Is404(log[k], FALSE) =>
              /\ k = Len(log)
              /\ pc = "fetched"
              /\ ~direct_result.ok

\* a fetch that got a 404 from the zero-padded URL, then one from the
\* non-padded URL, and returned
C23_Witness ==
    /\ pc = "fetched"
    /\ Len(log) = 3
    /\ Is404(log[2], TRUE)
    /\ Is404(log[3], FALSE)
    /\ ~direct_result.ok

----------------------------------------------------------------------------
(* C24 *)

\* C24: fetch_with_selenium is called only right after the primary request
\* answered 403, so once per fetch and for the primary URL only; when it
\* gives no content the fetch goes on with the zero-padded legacy URL
C24_RenderingFallback ==
    /\ pc = "selenium" => log = <<[src |-> "gov", pad |-> TRUE, res |-> "403"]>>
    /\ pc \in {"links1", "links2", "dirloop", "saveloop"} => log = <<>>
    /\ \A k \in 1..Len(log) :
          log[k].src = "selenium" =>
              /\ k = 2
              /\ log[1].src = "gov" /\ log[1].res = "403"
              /\ log[k].res # "ok" =>
                    IF k = Len(log)
                       THEN pc = "legacy" /\ use_zero_padding /\ attempt = 0
                       ELSE log[k + 1].src = "legacy" /\ log[k + 1].pad

\* a fetch whose rendering fallback raised after a 403 and which then got
\* the article from the legacy source
C24_Witness ==
    /\ pc = "fetched"
    /\ Len(log) = 3
    /\ log[1].res = "403"
    /\ log[2].src = "selenium" /\ log[2].res = "exc"
    /\ log[3].src = "legacy" /\ log[3].res = "ok"
    /\ direct_result.ok

----------------------------------------------------------------------------
(* C25 *)

\* C25: the primary attempt succeeds (its content goes to the formatter and
\* is returned) only with an extracted content of at least 50 characters
C25_PrimaryMinLength ==
    (fpc # "idle" /\ articles # <<>>) => char_count(content_lines) >= min_content_length

----------------------------------------------------------------------------
(* C26, C27 *)

\* C26: during one per-date crawl each of the two directory listing URLs
\* (zero-padded, non-padded) is requested at most once, and the non-padded
\* one only if the zero-padded one produced no links
C26_SingleAttempt ==
    LET dir == hist.dir IN
    /\ \A i, j \in 1..Len(dir) : dir[i].pad = dir[j].pad => i = j
    /\ \A j \in 1..Len(dir) :
          ~dir[j].pad => \A i \in 1..Len(dir) : dir[i].pad => ~dir[i].found

\* the same within one call of fetch_news_links_from_directory
C26_SingleAttemptPerCall ==
    LET dir == hist.dir IN
    /\ \A i, j \in 1..Len(dir) :
          (dir[i].call = dir[j].call /\ dir[i].pad = dir[j].pad) => i = j
    /\ \A j \in 1..Len(dir) :
          ~dir[j].pad => \E i \in 1..(j - 1) :
                            dir[i].call = dir[j].call /\ dir[i].pad /\ ~dir[i].found

\* the requests of call c of the crawl
requests_of(c) == SelectSeq(hist.dir, LAMBDA e : e.call = c)

\* the calls of fetch_news_links_from_directory that have been left
calls_left ==
    IF pc \in {"dirloop", "saveloop", "done"} /\ hist.dir # <<>>
       THEN hist.dir[Len(hist.dir)].call
    ELSE IF pc = "links2" THEN 1
    ELSE 0

\* C27: every call of fetch_news_links_from_directory returns a list, whatever
\* the two listing requests answer; the list is empty exactly when no
\* request of the call produced links, and it is the zero-padded listing's
\* links whenever that listing had any
C27_ListingResult ==
    /\ Len(hist.returned) = calls_left
    /\ \A c \in 1..Len(hist.returned) :
          LET reqs == requests_of(c) IN
          /\ reqs # <<>>
          /\ hist.returned[c] = "empty" <=> \A i \in 1..Len(reqs) : ~reqs[i].found
          /\ \A i \in 1..Len(reqs) :
                (reqs[i].pad /\ reqs[i].found) => hist.returned[c] = "padded"
          /\ hist.returned[c] = "nonpadded" =>
                \E i \in 1..Len(reqs) : ~reqs[i].pad /\ reqs[i].found

\* the second call of a crawl finds links on the non-padded listing only
C27_Witness ==
    /\ pc = "dirloop" /\ Len(hist.returned) = 2
    /\ Len(requests_of(2)) = 2
    /\ requests_of(2)[1].pad /\ ~requests_of(2)[1].found
    /\ ~requests_of(2)[2].pad /\ requests_of(2)[2].found
    /\ hist.returned[2] = "nonpadded"

----------------------------------------------------------------------------
(* C28 *)

\* line k of the content is a non-blank line without marker that comes after
\* a summary marker and before the first detail marker
after_summary_before_detail(ls, k) ==
    /\ ~is_empty(strip(ls[k]))
    /\ ~has_summary_marker(strip(ls[k])) /\ ~has_detail_marker(strip(ls[k]))
    /\ \E j \in 1..(k - 1) : has_summary_marker(strip(ls[j]))
    /\ \A j \in 1..(k - 1) : ~has_detail_marker(strip(ls[j]))

\* the bullets the first n lines of the content are to give, in order
RECURSIVE summary_bullets(_, _)
summary_bullets(ls, n) ==
    IF n = 0 THEN <<>>
    ELSE summary_bullets(ls, n - 1)
            \o (IF after_summary_before_detail(ls, n) THEN <<emit("* ", strip(ls[n]))>>
                ELSE <<>>)

\* the bullets among formatted lines
bullets_of(fl) == SelectSeq(fl, LAMBDA l : l.pre = "* ")

\* C28: a line is emitted as a bullet if and only if it is a non-blank line
\* without marker after a summary marker and before the first detail
\* marker: during the scan and in the returned text the bullets are exactly
\* those lines, in order; after a detail marker no line becomes a bullet
C28_BulletsExactly ==
    /\ fpc = "scan" => bullets_of(formatted_lines) = summary_bullets(content_lines, scan_i)
    /\ fpc = "returned" =>
          bullets_of(output) = summary_bullets(content_lines, Len(content_lines))

\* summary marker, a line, detail marker, the same line again: one bullet
C28_Witness ==
    /\ fpc = "returned" /\ Len(content_lines) = 4
    /\ has_summary_marker(strip(content_lines[1]))
    /\ strip(content_lines[2]).base = "org"
    /\ has_detail_marker(strip(content_lines[3]))
    /\ strip(content_lines[4]).base = "org"
    /\ bullets_of(output) = <<emit("* ", strip(content_lines[2]))>>

----------------------------------------------------------------------------
(* C29 *)

is_marker(t) == has_summary_marker(t) \/ has_detail_marker(t)

\* line k is the first non-blank line without marker after a detail marker
first_after_detail(ls, k) ==
    /\ ~is_empty(strip(ls[k])) /\ ~is_marker(strip(ls[k]))
    /\ \E m \in 1..(k - 1) :
          /\ has_detail_marker(strip(ls[m]))
          /\ \A j \in (m + 1)..(k - 1) : is_empty(strip(ls[j])) \/ is_marker(strip(ls[j]))

\* a loop round of the scan, on line scan_i + 1 of the content
RoundStep == fpc = "scan" /\ scan_i' = scan_i + 1

\* a round in which the armed flag makes the line a heading: the only
\* assignment of False to the flag in the loop
PromotedByFlag == RoundStep /\ next_line_is_title /\ ~next_line_is_title'

OneShotStep ==
    LET line == strip(content_lines[scan_i + 1]) IN
    /\ PromotedByFlag => first_after_detail(content_lines, scan_i + 1)
    /\ (RoundStep /\ next_line_is_title /\ ~is_empty(line) /\ ~is_marker(line))
          => ~next_line_is_title'

\* C29: next_line_is_title is one-shot: only the first non-blank line after
\* the detail marker is made a heading by it, and once that line has been
\* processed, heading or not, the flag is off
C29_OneShotFlag == [][OneShotStep]_vars

\* a line that is not the first one after the detail marker is made a
\* heading by the flag
C29_LatePromotion ==
    /\ fpc = "returned" /\ Len(content_lines) = 3
    /\ has_detail_marker(strip(content_lines[1]))
    /\ strip(content_lines[2]).base = "org"
    /\ strip(content_lines[3]).base = "title8"
    /\ \E k \in 1..Len(output) : output[k] = emit("### ", strip(content_lines[3]))

----------------------------------------------------------------------------
(* C30 *)

\* a detail marker comes before line k of the content
in_detail_section(ls, k) == \E m \in 1..(k - 1) : has_detail_marker(strip(ls[m]))

\* line k has the text of the non-blank line before it
same_as_previous(ls, k) ==
    \E m \in 1..(k - 1) :
        /\ strip(ls[m]) = strip(ls[k])
        /\ \A j \in (m + 1)..(k - 1) : is_empty(strip(ls[j]))

\* formatted lines hold, after the first detail marker, the same text on two
\* successive non-blank lines (marker lines apart)
twice_in_a_row(fl) ==
    \E d, k, m \in 1..Len(fl) :
        /\ d < k /\ k < m
        /\ Len(fl[d].parts) = 1 /\ has_detail_marker(fl[d].parts[1])
        /\ ~is_blank_line(fl[k])
        /\ \A j \in (k + 1)..(m - 1) : is_blank_line(fl[j])
        /\ fl[k].parts = fl[m].parts
        /\ \A j \in 1..Len(fl[k].parts) : ~is_marker(fl[k].parts[j])

SuppressionStep ==
    LET line == strip(content_lines[scan_i + 1])
        plain == ~is_empty(line) /\ ~is_marker(line)
        added == SubSeq(formatted_lines', Len(formatted_lines) + 1, Len(formatted_lines'))
    IN
    /\ (RoundStep /\ plain /\ in_detail_section(content_lines, scan_i + 1)
           /\ same_as_previous(content_lines, scan_i + 1))
          => (formatted_lines' = formatted_lines /\ fpc' = "scan")
    /\ (RoundStep /\ plain /\ ~in_detail_section(content_lines, scan_i + 1))
          => \E k \in 1..Len(added) : added[k].parts = <<line>>
    /\ RoundStep => ~twice_in_a_row(formatted_lines')
    /\ (fpc = "scan" /\ fpc' = "returned") => ~twice_in_a_row(output')

\* C30: in the detail section a line without marker that repeats the
\* previous non-blank line produces no output, also across blank lines, so
\* the output never holds the same detail-section line twice in a row; a
\* line of the summary section or outside both sections is always emitted
C30_DuplicateSuppression == [][SuppressionStep]_vars

\* detail marker, a line, a blank line, the same line: the line comes out once
C30_Witness ==
    /\ fpc = "returned" /\ Len(content_lines) = 4
    /\ has_detail_marker(strip(content_lines[1]))
    /\ strip(content_lines[2]).base = "org"
    /\ is_empty(strip(content_lines[3]))
    /\ strip(content_lines[4]) = strip(content_lines[2])
    /\ Len(SelectSeq(output, LAMBDA l : l.parts = <<strip(content_lines[2])>>)) = 1

----------------------------------------------------------------------------
(* C31 *)

\* every line of the content is blank after strip()
all_blank(ls) == \A k \in 1..Len(ls) : is_empty(strip(ls[k]))

\* C31: the returned text never holds two blank lines in a row and never
\* starts with a blank line; the empty text, returned for a content
\* without any non-blank line and for no other, holds no line at all
C31_NoBlankRuns ==
    fpc = "returned" =>
        /\ \A k \in 1..(Len(output) - 1) :
              ~(is_blank_line(output[k]) /\ is_blank_line(output[k + 1]))
        /\ output # <<>>
        /\ is_blank_line(output[1]) => (output = <<EmptyLine>> /\ all_blank(content_lines))
        /\ all_blank(content_lines) => output = <<EmptyLine>>

\* summary marker directly followed by the detail marker: the scan leaves
\* two blank lines in a row, the returned text has one
C31_Witness ==
    /\ fpc = "returned" /\ Len(content_lines) = 2
    /\ has_summary_marker(strip(content_lines[1]))
    /\ has_detail_marker(strip(content_lines[2]))
    /\ \E k \in 1..(Len(formatted_lines) - 1) :
          is_blank_line(formatted_lines[k]) /\ is_blank_line(formatted_lines[k + 1])
    /\ Len(output) = 4 /\ is_blank_line(output[2]) /\ ~is_blank_line(output[3])

----------------------------------------------------------------------------
(* C32 *)

\* the days listed before call i, reckoned from the calls before it
listed_before(i) == ApplyCalls(SubSeq(calls, 1, i - 1))

\* call i asks for nothing new: a remove of a day not listed, an add (one
\* date or a list, the empty list included) of days all listed already
asks_nothing(i) ==
    IF calls[i].op = "remove" THEN calls[i].days \cap listed_before(i) = {}
    ELSE calls[i].days \subseteq listed_before(i)

NoOpFrameStep ==
    (Len(calls') = Len(calls) + 1 /\ asks_nothing(Len(calls))')
        => (~calls'[Len(calls')].wrote /\ ledger' = ledger)

\* C32: a remove of a date that is not listed (or without ledger file), a
\* record of a date already listed and a bulk add of the empty list do not
\* write the ledger file: it stays as it was
C32_NoOpFrame == [][NoOpFrameStep]_vars

\* a remove of a day that is not listed, from an existing ledger, after a
\* record of a listed day: neither wrote
C32_Witness ==
    /\ Len(calls) = 3 /\ ledger.exists
    /\ calls[1].op = "add" /\ calls[1].wrote
    /\ calls[2].op = "add" /\ calls[2].days = calls[1].days /\ ~calls[2].wrote
    /\ calls[3].op = "remove" /\ calls[3].days \cap calls[1].days = {} /\ ~calls[3].wrote

----------------------------------------------------------------------------
(* C33 *)

all_idle == \A p \in Procs : procs.at[p] = "idle"

\* C33: as long as no record call began while another one was running, no
\* recorded date is lost: between calls the ledger lists exactly the days
\* recorded; the loss of a date needs two calls running side by side
C33_SequentialKeepsAll ==
    (all_idle /\ ~procs.raced) => Range(ListedDays) = ApplyCalls(calls)

\* two processes recorded two different days side by side, both read the
\* ledger as it was before either wrote, both wrote, and the ledger lists
\* only the day of the later writer
C33_LostUpdate ==
    /\ all_idle /\ procs.raced /\ Len(calls) = 2
    /\ calls[1].wrote /\ calls[2].wrote
    /\ calls[1].days # calls[2].days
    /\ \A p \in Procs : procs.read[p] = NoLedger
    /\ Range(ListedDays) = calls[2].days

----------------------------------------------------------------------------
(* C34 *)

\* the crawl returned after a directory crawl that went through links and
\* kept no item
no_item_return ==
    pc = "done" /\ hist.listing = "links" /\ hist.outcomes # {} /\ "kept" \notin hist.outcomes

\* C34: when the listing had links and the directory crawl returned no
\* item, the crawl reports skipped only if every link was skipped because
\* its file exists; if a link failed to fetch, the outcome is failed
C34_SkippedOnlyIfAllExist ==
    no_item_return =>
        /\ stats.skipped > 0 => hist.outcomes \subseteq {"skipped", "dropped"}
        /\ "failed" \in hist.outcomes => stats = OnlyFailed

\* a v2 crawl of two links, one skipped for its file, one whose fetch
\* failed, reports both as skipped
C34_SkippedAfterFailure ==
    /\ no_item_return /\ variant = "v2"
    /\ hist.outcomes = {"skipped", "failed"}
    /\ stats = [success |-> 0, failed |-> 0, skipped |-> 2]

----------------------------------------------------------------------------
(* C35 *)

\* line k of the content is dropped as the repetition of the line before
suppressed(ls, k) ==
    /\ in_detail_section(ls, k) /\ ~is_marker(strip(ls[k]))
    /\ same_as_previous(ls, k)

\* the texts the first n lines of the content are to leave, in order: the
\* non-blank lines that are not dropped as repetitions
RECURSIVE kept_texts(_, _)
kept_texts(ls, n) ==
    IF n = 0 THEN <<>>
    ELSE kept_texts(ls, n - 1)
            \o (IF ~is_empty(strip(ls[n])) /\ ~suppressed(ls, n) THEN <<strip(ls[n])>>
                ELSE <<>>)

\* formatted lines are each one text with one of the prefixes, and their
\* texts are, in order, the texts given
one_line_each(fl, texts) ==
    LET nb == NonBlankLines(fl) IN
    /\ \A k \in 1..Len(nb) : Len(nb[k].parts) = 1 /\ nb[k].pre \in {"", "* ", "## ", "### "}
    /\ Len(nb) = Len(texts)
    /\ \A k \in 1..Len(nb) : nb[k].parts[1] = texts[k]

\* C35: format_news_content neither merges nor reorders lines: the
\* paragraph buffer is always empty, and the non-blank output lines are, in
\* input order, the stripped non-blank input lines that are not suppressed
\* repetitions, each alone on its line behind '', '* ', '## ' or '### '
C35_LineForLine ==
    /\ current_paragraph = <<>>
    /\ fpc = "scan" => one_line_each(formatted_lines, kept_texts(content_lines, scan_i))
    /\ fpc = "returned" =>
          one_line_each(output, kept_texts(content_lines, Len(content_lines)))

\* detail marker and three paragraph lines, the first and the last alike:
\* four output lines in the same order
C35_Witness ==
    /\ fpc = "returned" /\ Len(content_lines) = 4
    /\ has_detail_marker(strip(content_lines[1]))
    /\ strip(content_lines[2]).base = "org"
    /\ strip(content_lines[3]).base = "short"
    /\ strip(content_lines[4]).base = "org"
    /\ Len(NonBlankLines(output)) = 4

----------------------------------------------------------------------------
(* C36 *)

OnlySaved == [success |-> 1, failed |-> 0, skipped |-> 0]

\* C36: every return of crawl_and_save_news_items carries counters that
\* count this call only (success is the number of files it wrote, no
\* counter exceeds the number of links of a listing) and that sum to at
\* least 1; when the call returned from a guard or from the direct fetch,
\* one counter is 1 and the other two are 0
C36_CountersAtReturn ==
    (pc = "done" /\ variant = "v2") =>
        /\ stats.success + stats.failed + stats.skipped >= 1
        /\ stats.success = Len(writes)
        /\ stats.success + stats.failed + stats.skipped <= MaxLinks
        /\ hist.listing = "none" => stats \in {OnlySaved, OnlyFailed, OnlySkipped}

\* a crawl returns from its save loop with one item saved and one failed,
\* after an earlier crawl of the process had recorded a date
C36_Witness ==
    /\ pc = "done" /\ variant = "v2"
    /\ stats = [success |-> 1, failed |-> 1, skipped |-> 0]
    /\ ledger0.exists

----------------------------------------------------------------------------
(* C37 *)

\* C37: on every return of crawl_and_save_news_items the items returned are
\* the items whose file this call saved: as many as stats.success counts,
\* with the dates of the files written
C37_ItemsAreSaved ==
    (pc = "done" /\ variant = "v2") =>
        /\ Len(items) = stats.success
        /\ {items[k].date.day : k \in 1..Len(items)} = Range(writes)

\* the same for the returns that come before the save loop: the guards,
\* the direct fetch, the listing without links, the crawl without items
C37_ItemsAreSavedBeforeLoop ==
    (pc = "done" /\ variant = "v2" /\ "kept" \notin hist.outcomes) =>
        /\ Len(items) = stats.success
        /\ {items[k].date.day : k \in 1..Len(items)} = Range(writes)

\* a direct fetch whose save succeeded returns its one item
C37_DirectItem ==
    /\ pc = "done" /\ variant = "v2" /\ hist.listing = "none"
    /\ Len(items) = 1 /\ stats.success = 1 /\ writes = <<date.day>>

----------------------------------------------------------------------------
(* C38 *)

\* the URL of request k of the running fetch_news_by_date call
url_of(k) ==
    IF log[k].src = "legacy" THEN request_url(date, log[k].pad)
    ELSE build_govopendata_url(date)

\* C38: within one fetch_news_by_date call no URL that answered 404 is
\* requested again, whatever the date
C38_No404Again ==
    \A i, j \in 1..Len(log) :
        (i < j /\ log[i].res = "404") => url_of(j) # url_of(i)

\* the same for dates whose month or day has one digit
C38_No404AgainOneDigit ==
    (month(date) < 10 \/ day(date) < 10) =>
        \A i, j \in 1..Len(log) :
            (i < j /\ log[i].res = "404") => url_of(j) # url_of(i)

\* a date whose month and day have two digits: both legacy requests go to
\* the same URL, and both answer 404
C38_SameUrlTwice ==
    /\ Len(log) >= 2
    /\ Is404(log[Len(log) - 1], TRUE) /\ Is404(log[Len(log)], FALSE)
    /\ url_of(Len(log) - 1) = url_of(Len(log))

----------------------------------------------------------------------------
(* C39 *)

\* the crawl that has just returned sent a request / came upon content
request_made == hist.primary # "none"
content_found ==
    hist.primary = "ok" \/ hist.legacy = "ok" \/ "kept" \in hist.outcomes

\* the loop body of crawl_news.py puts the date of the returned crawl on
\* missing_dates, the list the run hands to update_not_exist_file
put_on_missing ==
    /\ pc = "done" /\ batch.state = "running" /\ batch.script = "crawl_news"
    /\ Len(batch'.missing_dates) > Len(batch.missing_dates)

MissingAfterEmptyRequestStep ==
    put_on_missing => (request_made /\ ~content_found)

\* C39: in the batch modes of crawl_news.py a date is added to the ledger by
\* the run only if a request was made for it and no content was found; a
\* date turned away by a guard is never added
C39_MissingAfterEmptyRequest == [][MissingAfterEmptyRequestStep]_vars

MissingAfterRequestPastStep ==
    (put_on_missing /\ ~IsFutureDate(date)) => request_made

\* a date that is not in the future is added only after a request
C39_MissingAfterRequestPast == [][MissingAfterRequestPastStep]_vars

SkippedNotMissingStep ==
    (/\ pc = "done" /\ batch.state = "running" /\ batch.script = "crawl_news"
     /\ ~request_made /\ stats.skipped > 0)
        => batch'.missing_dates = batch.missing_dates

\* a date skipped by the broadcast-hour or the already-exists guard is not
\* added
C39_SkippedNotMissing == [][SkippedNotMissingStep]_vars

\* the run has ended and the ledger lists a date of the run that the
\* future-date guard turned away
C39_FutureDateLedgered ==
    /\ batch.state = "finished" /\ batch.script = "crawl_news"
    /\ \E i \in 1..Len(batch.dates) :
        /\ IsFutureDate(batch.dates[i])
        /\ ledger.exists
        /\ strftime(batch.dates[i]) \in Range(findall(ledger.lines))

\* the run has ended and the ledger lists a date whose content was fetched
\* and could not be saved
C39_UnsavedDateLedgered ==
    /\ batch.state = "finished" /\ batch.script = "crawl_news"
    /\ \E i \in 1..Len(batch.dates) :
        /\ ~IsFutureDate(batch.dates[i])
        /\ ~files[batch.dates[i].day]
        /\ ledger.exists
        /\ strftime(batch.dates[i]) \in Range(findall(ledger.lines))
        /\ ledger0 = NoLedger

=============================================================================
